---- MODULE Spec2Model ----
(***************************************************************************)
(* project-scanner: the static analysis pipeline.                          *)
(*   CodeParser        (parser.py)        walks a source tree, parses      *)
(*                     every eligible file and extracts function / class / *)
(*                     import records;                                     *)
(*   CodeAnalyzer      (analyzer.py)      builds a name-keyed directed     *)
(*                     call graph and runs five heuristic passes over it;  *)
(*   FunctionDescriber (llm_describer.py) asks the description service for *)
(*                     a description of every function, batch by batch;    *)
(*   DataVisualizer    (visualizer.py)    assembles graph, file tree,      *)
(*                     issue groups and counts for the UI;                 *)
(*   ProjectAnalyzer   (main.py)          runs the four in order, saves    *)
(*                     and loads the result;                               *)
(*   run_analysis      (ui/app.py)        runs one analysis on a worker    *)
(*                     thread and publishes its progress.                  *)
(* Strings are TLA+ strings; Python's str methods are computed on them.    *)
(* Python's None is the empty tuple <<>>, an optional value v is <<v>>.    *)
(* The docstring field of the records is left out: no pass reads it.       *)
(* Cyrillic text of the source is written in Latin transliteration.        *)
(***************************************************************************)
EXTENDS Integers, Sequences, FiniteSets, TLC

VARIABLES
    project,      \* the files os.walk yields, in walk order (indices into FilePool)
    cursor,       \* position of parse_project's loop in project
    parsed_data,  \* CodeParser.parsed_data
    call_graph,   \* CodeAnalyzer.call_graph (a networkx DiGraph)
    issues,       \* CodeAnalyzer.issues
    ran,          \* the passes of the analyzer that have been run
    described,    \* the list describe_all_functions is filling
    batch_start,  \* i of describe_all_functions' loop
    results,      \* ProjectAnalyzer.results
    disk,         \* the JSON document save_results wrote
    raised,       \* the exception raised by the last call
    progress,     \* analysis_progress[project_id]
    stored,       \* analysis_results.get(project_id)
    delays,       \* the time.sleep calls of describe_all_functions so far
    model,        \* FunctionDescriber.model of the run, None before stage 3
    llm_model,    \* Config.LLM_MODEL
    started_with, \* history: Config.LLM_MODEL when the run was started
    seen,         \* the status a client read last from GET /progress/<id>
    fetched,      \* the status code of the client's last GET /results/<id>
    pc            \* position of the pipeline

\* what the worker thread of a run never writes
web == <<llm_model, started_with, seen, fetched>>

vars == <<project, cursor, parsed_data, call_graph, issues, ran, described,
          batch_start, results, disk, raised, progress, stored, delays, model,
          llm_model, started_with, seen, fetched, pc>>

-----------------------------------------------------------------------------
(* Bounds of the model *)

MaxFiles == 2
MaxFuncs == 2
MaxImports == 1
MaxPassFuncs == 1

-----------------------------------------------------------------------------
(* Python built-ins used by the code *)

StartsWith(s, p) ==
    Len(p) <= Len(s) /\ SubSeq(s, 1, Len(p)) = p

EndsWith(s, p) ==
    Len(p) <= Len(s) /\ SubSeq(s, Len(s) - Len(p) + 1, Len(s)) = p

\* p in s
Contains(s, p) ==
    \E i \in 1..(Len(s) - Len(p) + 1) : SubSeq(s, i, i + Len(p) - 1) = p

IsSpace(c) ==
    c \in {" ", "\n", "\t", "\r", "\f"}

RECURSIVE LStrip(_)
LStrip(s) ==
    IF Len(s) > 0 /\ IsSpace(SubSeq(s, 1, 1))
    THEN LStrip(SubSeq(s, 2, Len(s)))
    ELSE s

RECURSIVE RStrip(_)
RStrip(s) ==
    IF Len(s) > 0 /\ IsSpace(SubSeq(s, Len(s), Len(s)))
    THEN RStrip(SubSeq(s, 1, Len(s) - 1))
    ELSE s

\* s.strip()
Strip(s) ==
    RStrip(LStrip(s))

\* s.split(sep) for a one-character separator: the pieces between the
\* occurrences of sep, the k-th piece ending before the k-th occurrence
Split(s, sep) ==
    LET at == {i \in 1..Len(s) : SubSeq(s, i, i) = sep}
        pos(k) == IF k = 0 THEN 0
                  ELSE IF k > Cardinality(at) THEN Len(s) + 1
                  ELSE CHOOSE i \in at : Cardinality({j \in at : j < i}) = k - 1
    IN  [k \in 1..(Cardinality(at) + 1) |-> SubSeq(s, pos(k - 1) + 1, pos(k) - 1)]

\* sep.join(parts)
RECURSIVE Join(_, _)
Join(parts, sep) ==
    IF parts = << >> THEN ""
    ELSE IF Len(parts) = 1 THEN parts[1]
    ELSE parts[1] \o sep \o Join(Tail(parts), sep)

\* lst[lo:hi] with 0 <= lo (Python clamps the upper end)
Slice(lst, lo, hi) ==
    SubSeq(lst, lo + 1, IF hi < Len(lst) THEN hi ELSE Len(lst))

\* d.get(key, default)
Get(d, key, default) ==
    IF key \in DOMAIN d THEN d[key] ELSE default

\* truth value of an optional string (None and '' are falsy)
Truthy(v) ==
    v # << >> /\ v[1] # ""

\* index of the last "." of a name, 0 when there is none (str.rfind, 1-based)
RECURSIVE RFindDot(_, _)
RFindDot(s, i) ==
    IF i = 0 THEN 0
    ELSE IF SubSeq(s, i, i) = "." THEN i
    ELSE RFindDot(s, i - 1)

\* pathlib's PurePath.suffix of a file name
Suffix(name) ==
    LET i == RFindDot(name, Len(name))
    IN  IF 1 < i /\ i < Len(name) THEN SubSeq(name, i, Len(name)) ELSE ""

-----------------------------------------------------------------------------
(* config.py *)

SUPPORTED_EXTENSIONS == {".py", ".js", ".ts", ".jsx", ".tsx"}

IGNORE_DIRS == {"node_modules", "__pycache__", ".git", "venv", "env", ".venv"}

MAX_FILE_SIZE == 1024 * 1024

MAX_FUNCTIONS_PER_BATCH == 10

\* the default of Config.LLM_MODEL
LLM_MODEL == "minimax/minimax-m2"

AVAILABLE_MODELS ==
    << "anthropic/claude-3-5-haiku-20241022", "openai/gpt-4o-mini",
       "deepseek/deepseek-chat", "qwen/qwen-2.5-coder-32b-instruct",
       "google/gemini-flash-1.5", "minimax/minimax-m2" >>

-----------------------------------------------------------------------------
(* Syntax trees, as ast.parse builds them.  A tree is a tuple of nodes, a   *)
(* node's id is its index, node 1 is the Module; children are listed in the *)
(* order of ast.iter_child_nodes.                                           *)

Node(kind, children) ==
    [kind |-> kind, children |-> children, name |-> "", id |-> "", attr |-> "",
     text |-> "", lineno |-> 0, end_lineno |-> 0, args |-> << >>,
     decorator_list |-> << >>, returns |-> 0, bases |-> << >>, body |-> << >>,
     func |-> 0, names |-> << >>, module |-> << >>]

OtherNode(kind, children) ==
    Node(kind, children)

\* FunctionDef and AsyncFunctionDef: args are the names of node.args.args,
\* returns is the id of the annotation node (0: none)
FunctionDefNode(kind, name, lineno, end_lineno, args, decorator_list, returns, children) ==
    [Node(kind, children) EXCEPT !.name = name, !.lineno = lineno,
        !.end_lineno = end_lineno, !.args = args,
        !.decorator_list = decorator_list, !.returns = returns]

ClassDefNode(name, lineno, end_lineno, bases, body, children) ==
    [Node("ClassDef", children) EXCEPT !.name = name, !.lineno = lineno,
        !.end_lineno = end_lineno, !.bases = bases, !.body = body]

Alias(name, asname) ==
    [name |-> name, asname |-> asname]

ImportNode(lineno, names) ==
    [Node("Import", << >>) EXCEPT !.lineno = lineno, !.names = names]

ImportFromNode(lineno, module, names) ==
    [Node("ImportFrom", << >>) EXCEPT !.lineno = lineno, !.module = module,
        !.names = names]

CallNode(func, children) ==
    [Node("Call", children) EXCEPT !.func = func]

NameNode(id) ==
    [Node("Name", << >>) EXCEPT !.id = id, !.text = id]

AttributeNode(attr, text, children) ==
    [Node("Attribute", children) EXCEPT !.attr = attr, !.text = text]

ConstantNode(text) ==
    [Node("Constant", << >>) EXCEPT !.text = text]

\* isinstance(node, ast.<cls>): no class of the syntax tree used here is a
\* subclass of another one (AsyncFunctionDef is not a FunctionDef)
IsInstance(node, cls) ==
    node.kind = cls

\* ast.walk(root): breadth first, a node before its children
RECURSIVE WalkQueue(_, _)
WalkQueue(tree, todo) ==
    IF todo = << >> THEN << >>
    ELSE << Head(todo) >> \o WalkQueue(tree, Tail(todo) \o tree[Head(todo)].children)

Walk(tree, root) ==
    WalkQueue(tree, << root >>)

\* ast.unparse of an annotation
Unparse(tree, n) ==
    tree[n].text

-----------------------------------------------------------------------------
(* The source files of the scanned projects: the text of each file and the  *)
(* tree ast.parse builds from it.                                           *)

\* a/app.py
\*    1  import os
\*    2  from helpers import helper
\*    3
\*    4  def a():
\*    5      b()
\*    6
\*    7  def b():
\*    8      pass
ContentApp ==
    "import os\n"
    \o "from helpers import helper\n"
    \o "\n"
    \o "def a():\n"
    \o "    b()\n"
    \o "\n"
    \o "def b():\n"
    \o "    pass\n"

TreeApp ==
    << OtherNode("Module", <<2, 4, 6, 11>>),
       ImportNode(1, <<Alias("os", <<>>)>>),
       OtherNode("alias", <<>>),
       ImportFromNode(2, <<"helpers">>, <<Alias("helper", <<>>)>>),
       OtherNode("alias", <<>>),
       FunctionDefNode("FunctionDef", "a", 4, 5, <<>>, <<>>, 0, <<7, 8>>),
       OtherNode("arguments", <<>>),
       OtherNode("Expr", <<9>>),
       CallNode(10, <<10>>),
       NameNode("b"),
       FunctionDefNode("FunctionDef", "b", 7, 8, <<>>, <<>>, 0, <<12, 13>>),
       OtherNode("arguments", <<>>),
       OtherNode("Pass", <<>>) >>

\* a/util.py
\*    1  from helpers import helper
\*    2
\*    3  def f() -> int:
\*    4      pass
ContentUtilA ==
    "from helpers import helper\n"
    \o "\n"
    \o "def f() -> int:\n"
    \o "    pass\n"

TreeUtilA ==
    << OtherNode("Module", <<2, 4>>),
       ImportFromNode(1, <<"helpers">>, <<Alias("helper", <<>>)>>),
       OtherNode("alias", <<>>),
       FunctionDefNode("FunctionDef", "f", 3, 4, <<>>, <<>>, 7, <<5, 6, 7>>),
       OtherNode("arguments", <<>>),
       OtherNode("Pass", <<>>),
       NameNode("int") >>

\* b/util.py
\*    1  def g():
\*    2      helper()
\*    3      zz()
ContentUtilB ==
    "def g():\n"
    \o "    helper()\n"
    \o "    zz()\n"

TreeUtilB ==
    << OtherNode("Module", <<2>>),
       FunctionDefNode("FunctionDef", "g", 1, 3, <<>>, <<>>, 0, <<3, 4, 7>>),
       OtherNode("arguments", <<>>),
       OtherNode("Expr", <<5>>),
       CallNode(6, <<6>>),
       NameNode("helper"),
       OtherNode("Expr", <<8>>),
       CallNode(9, <<9>>),
       NameNode("zz") >>

\* a/run.py
\*    1  def main():
\*    2      print("x")
\*    3
\*    4  if __name__ == '__main__':
\*    5      def setup():
\*    6          pass
\*    7      main()
ContentRun ==
    "def main():\n"
    \o "    print(\"x\")\n"
    \o "\n"
    \o "if __name__ == '__main__':\n"
    \o "    def setup():\n"
    \o "        pass\n"
    \o "    main()\n"

TreeRun ==
    << OtherNode("Module", <<2, 8>>),
       FunctionDefNode("FunctionDef", "main", 1, 2, <<>>, <<>>, 0, <<3, 4>>),
       OtherNode("arguments", <<>>),
       OtherNode("Expr", <<5>>),
       CallNode(6, <<6, 7>>),
       NameNode("print"),
       ConstantNode("'x'"),
       OtherNode("If", <<9, 12, 15>>),
       OtherNode("Compare", <<10, 11>>),
       NameNode("__name__"),
       ConstantNode("'__main__'"),
       FunctionDefNode("FunctionDef", "setup", 5, 6, <<>>, <<>>, 0, <<13, 14>>),
       OtherNode("arguments", <<>>),
       OtherNode("Pass", <<>>),
       OtherNode("Expr", <<16>>),
       CallNode(17, <<17>>),
       NameNode("main") >>

\* a/svc.py
\*    1  import os
\*    2  import os
\*    3
\*    4  class K(Base):
\*    5      def __init__(self):
\*    6          self._h()
\*    7
\*    8      @staticmethod
\*    9      def _h() -> str:
\*   10          def inner():
\*   11              todo()  # TODO FIXME
\*   12          raise NotImplementedError
\*   13
\*   14  async def fetch() -> int:
\*   15      pass
ContentSvc ==
    "import os\n"
    \o "import os\n"
    \o "\n"
    \o "class K(Base):\n"
    \o "    def __init__(self):\n"
    \o "        self._h()\n"
    \o "\n"
    \o "    @staticmethod\n"
    \o "    def _h() -> str:\n"
    \o "        def inner():\n"
    \o "            todo()  # TODO FIXME\n"
    \o "        raise NotImplementedError\n"
    \o "\n"
    \o "async def fetch() -> int:\n"
    \o "    pass\n"

TreeSvc ==
    << OtherNode("Module", <<2, 4, 6, 26>>),
       ImportNode(1, <<Alias("os", <<>>)>>),
       OtherNode("alias", <<>>),
       ImportNode(2, <<Alias("os", <<>>)>>),
       OtherNode("alias", <<>>),
       ClassDefNode("K", 4, 12, <<7>>, <<8, 15>>, <<7, 8, 15>>),
       NameNode("Base"),
       FunctionDefNode("FunctionDef", "__init__", 5, 6, <<"self">>, <<>>, 0, <<9, 11>>),
       OtherNode("arguments", <<10>>),
       OtherNode("arg", <<>>),
       OtherNode("Expr", <<12>>),
       CallNode(13, <<13>>),
       AttributeNode("_h", "self._h", <<14>>),
       NameNode("self"),
       FunctionDefNode("FunctionDef", "_h", 9, 12, <<>>, <<24>>, 25, <<16, 17, 22, 24, 25>>),
       OtherNode("arguments", <<>>),
       FunctionDefNode("FunctionDef", "inner", 10, 11, <<>>, <<>>, 0, <<18, 19>>),
       OtherNode("arguments", <<>>),
       OtherNode("Expr", <<20>>),
       CallNode(21, <<21>>),
       NameNode("todo"),
       OtherNode("Raise", <<23>>),
       NameNode("NotImplementedError"),
       NameNode("staticmethod"),
       NameNode("str"),
       FunctionDefNode("AsyncFunctionDef", "fetch", 14, 15, <<>>, <<>>, 29, <<27, 28, 29>>),
       OtherNode("arguments", <<>>),
       OtherNode("Pass", <<>>),
       NameNode("int") >>

\* a/big.py: a file of more than MAX_FILE_SIZE bytes (its text is elided
\* after the first function)
\*    1  def huge():
\*    2      missing()
ContentBig ==
    "def huge():\n"
    \o "    missing()\n"

TreeBig ==
    << OtherNode("Module", <<2>>),
       FunctionDefNode("FunctionDef", "huge", 1, 2, <<>>, <<>>, 0, <<3, 4>>),
       OtherNode("arguments", <<>>),
       OtherNode("Expr", <<5>>),
       CallNode(6, <<6>>),
       NameNode("missing") >>

\* node_modules/lib.py
\*    1  import sys
\*    2
\*    3  def lib():
\*    4      pass
ContentLib ==
    "import sys\n"
    \o "\n"
    \o "def lib():\n"
    \o "    pass\n"

TreeLib ==
    << OtherNode("Module", <<2, 4>>),
       ImportNode(1, <<Alias("sys", <<>>)>>),
       OtherNode("alias", <<>>),
       FunctionDefNode("FunctionDef", "lib", 3, 4, <<>>, <<>>, 0, <<5, 6>>),
       OtherNode("arguments", <<>>),
       OtherNode("Pass", <<>>) >>

\* c/util.py
\*    1  def f():
\*    2      g()
ContentUtilC ==
    "def f():\n"
    \o "    g()\n"

TreeUtilC ==
    << OtherNode("Module", <<2>>),
       FunctionDefNode("FunctionDef", "f", 1, 2, <<>>, <<>>, 0, <<3, 4>>),
       OtherNode("arguments", <<>>),
       OtherNode("Expr", <<5>>),
       CallNode(6, <<6>>),
       NameNode("g") >>

\* a/many.py: more functions than one batch of descriptions holds
\*    1  def m1():
\*    2      pass
\*    3
\*    4  def m2():
\*    5      pass
\*       ... and so on to
\*   61  def m21():
\*   62      pass
ContentMany ==
    "def m1():\n"
    \o "    pass\n"
    \o "\n"
    \o "def m2():\n"
    \o "    pass\n"
    \o "\n"
    \o "def m3():\n"
    \o "    pass\n"
    \o "\n"
    \o "def m4():\n"
    \o "    pass\n"
    \o "\n"
    \o "def m5():\n"
    \o "    pass\n"
    \o "\n"
    \o "def m6():\n"
    \o "    pass\n"
    \o "\n"
    \o "def m7():\n"
    \o "    pass\n"
    \o "\n"
    \o "def m8():\n"
    \o "    pass\n"
    \o "\n"
    \o "def m9():\n"
    \o "    pass\n"
    \o "\n"
    \o "def m10():\n"
    \o "    pass\n"
    \o "\n"
    \o "def m11():\n"
    \o "    pass\n"
    \o "\n"
    \o "def m12():\n"
    \o "    pass\n"
    \o "\n"
    \o "def m13():\n"
    \o "    pass\n"
    \o "\n"
    \o "def m14():\n"
    \o "    pass\n"
    \o "\n"
    \o "def m15():\n"
    \o "    pass\n"
    \o "\n"
    \o "def m16():\n"
    \o "    pass\n"
    \o "\n"
    \o "def m17():\n"
    \o "    pass\n"
    \o "\n"
    \o "def m18():\n"
    \o "    pass\n"
    \o "\n"
    \o "def m19():\n"
    \o "    pass\n"
    \o "\n"
    \o "def m20():\n"
    \o "    pass\n"
    \o "\n"
    \o "def m21():\n"
    \o "    pass\n"

TreeMany ==
    << OtherNode("Module", <<2, 5, 8, 11, 14, 17, 20, 23, 26, 29, 32,
                             35, 38, 41, 44, 47, 50, 53, 56, 59, 62>>),
       FunctionDefNode("FunctionDef", "m1", 1, 2, <<>>, <<>>, 0, <<3, 4>>),
       OtherNode("arguments", <<>>),
       OtherNode("Pass", <<>>),
       FunctionDefNode("FunctionDef", "m2", 4, 5, <<>>, <<>>, 0, <<6, 7>>),
       OtherNode("arguments", <<>>),
       OtherNode("Pass", <<>>),
       FunctionDefNode("FunctionDef", "m3", 7, 8, <<>>, <<>>, 0, <<9, 10>>),
       OtherNode("arguments", <<>>),
       OtherNode("Pass", <<>>),
       FunctionDefNode("FunctionDef", "m4", 10, 11, <<>>, <<>>, 0, <<12, 13>>),
       OtherNode("arguments", <<>>),
       OtherNode("Pass", <<>>),
       FunctionDefNode("FunctionDef", "m5", 13, 14, <<>>, <<>>, 0, <<15, 16>>),
       OtherNode("arguments", <<>>),
       OtherNode("Pass", <<>>),
       FunctionDefNode("FunctionDef", "m6", 16, 17, <<>>, <<>>, 0, <<18, 19>>),
       OtherNode("arguments", <<>>),
       OtherNode("Pass", <<>>),
       FunctionDefNode("FunctionDef", "m7", 19, 20, <<>>, <<>>, 0, <<21, 22>>),
       OtherNode("arguments", <<>>),
       OtherNode("Pass", <<>>),
       FunctionDefNode("FunctionDef", "m8", 22, 23, <<>>, <<>>, 0, <<24, 25>>),
       OtherNode("arguments", <<>>),
       OtherNode("Pass", <<>>),
       FunctionDefNode("FunctionDef", "m9", 25, 26, <<>>, <<>>, 0, <<27, 28>>),
       OtherNode("arguments", <<>>),
       OtherNode("Pass", <<>>),
       FunctionDefNode("FunctionDef", "m10", 28, 29, <<>>, <<>>, 0, <<30, 31>>),
       OtherNode("arguments", <<>>),
       OtherNode("Pass", <<>>),
       FunctionDefNode("FunctionDef", "m11", 31, 32, <<>>, <<>>, 0, <<33, 34>>),
       OtherNode("arguments", <<>>),
       OtherNode("Pass", <<>>),
       FunctionDefNode("FunctionDef", "m12", 34, 35, <<>>, <<>>, 0, <<36, 37>>),
       OtherNode("arguments", <<>>),
       OtherNode("Pass", <<>>),
       FunctionDefNode("FunctionDef", "m13", 37, 38, <<>>, <<>>, 0, <<39, 40>>),
       OtherNode("arguments", <<>>),
       OtherNode("Pass", <<>>),
       FunctionDefNode("FunctionDef", "m14", 40, 41, <<>>, <<>>, 0, <<42, 43>>),
       OtherNode("arguments", <<>>),
       OtherNode("Pass", <<>>),
       FunctionDefNode("FunctionDef", "m15", 43, 44, <<>>, <<>>, 0, <<45, 46>>),
       OtherNode("arguments", <<>>),
       OtherNode("Pass", <<>>),
       FunctionDefNode("FunctionDef", "m16", 46, 47, <<>>, <<>>, 0, <<48, 49>>),
       OtherNode("arguments", <<>>),
       OtherNode("Pass", <<>>),
       FunctionDefNode("FunctionDef", "m17", 49, 50, <<>>, <<>>, 0, <<51, 52>>),
       OtherNode("arguments", <<>>),
       OtherNode("Pass", <<>>),
       FunctionDefNode("FunctionDef", "m18", 52, 53, <<>>, <<>>, 0, <<54, 55>>),
       OtherNode("arguments", <<>>),
       OtherNode("Pass", <<>>),
       FunctionDefNode("FunctionDef", "m19", 55, 56, <<>>, <<>>, 0, <<57, 58>>),
       OtherNode("arguments", <<>>),
       OtherNode("Pass", <<>>),
       FunctionDefNode("FunctionDef", "m20", 58, 59, <<>>, <<>>, 0, <<60, 61>>),
       OtherNode("arguments", <<>>),
       OtherNode("Pass", <<>>),
       FunctionDefNode("FunctionDef", "m21", 61, 62, <<>>, <<>>, 0, <<63, 64>>),
       OtherNode("arguments", <<>>),
       OtherNode("Pass", <<>>) >>

\* A file os.walk finds: its directory below the project root, its name,
\* whether it decodes as UTF-8, its encoded size in bytes, whether ast.parse
\* accepts it, its text and its tree.
SourceFile(dir, name, content, tree) ==
    [dir |-> dir, name |-> name, decodable |-> TRUE, size |-> Len(content),
     syntax_ok |-> TRUE, content |-> content, tree |-> tree]

FilePool ==
    << SourceFile(<<"a">>, "app.py", ContentApp, TreeApp),
       SourceFile(<<"a">>, "util.py", ContentUtilA, TreeUtilA),
       SourceFile(<<"b">>, "util.py", ContentUtilB, TreeUtilB),
       SourceFile(<<"a">>, "run.py", ContentRun, TreeRun),
       SourceFile(<<"a">>, "svc.py", ContentSvc, TreeSvc),
       [SourceFile(<<"a">>, "big.py", ContentBig, TreeBig)
            EXCEPT !.size = MAX_FILE_SIZE + 1],
       [SourceFile(<<"a">>, "bad.py", "def broken(:\n", << >>)
            EXCEPT !.syntax_ok = FALSE],
       [SourceFile(<<"a">>, "bin.py", "", << >>)
            EXCEPT !.decodable = FALSE],
       SourceFile(<<"a">>, "x.js", "function a() {}\n", << >>),
       SourceFile(<<"a">>, "notes.txt", "def note():\n    pass\n", << >>),
       SourceFile(<<"node_modules">>, "lib.py", ContentLib, TreeLib),
       SourceFile(<<"c">>, "util.py", ContentUtilC, TreeUtilC),
       SourceFile(<<"a">>, "many.py", ContentMany, TreeMany) >>

\* the file with more than MAX_FUNCTIONS_PER_BATCH functions
LongFile ==
    Len(FilePool)

-----------------------------------------------------------------------------
(* parser.py: CodeParser *)

\* CodeParser.__init__
EmptyParsedData ==
    [files |-> << >>, functions |-> << >>, classes |-> << >>,
     imports |-> << >>, call_graph |-> << >>]

\* the calls loop of _extract_function: the callee names, in walk order
RECURSIVE CallNames(_, _)
CallNames(tree, order) ==
    IF order = << >> THEN << >>
    ELSE LET sub_node == tree[Head(order)]
             func == tree[sub_node.func]
             this == IF IsInstance(sub_node, "Call")
                     THEN IF IsInstance(func, "Name") THEN << func.id >>
                          ELSE IF IsInstance(func, "Attribute") THEN << func.attr >>
                          ELSE << >>
                     ELSE << >>
         IN  this \o CallNames(tree, Tail(order))

\* the decorators loop of _extract_function
RECURSIVE DecoratorNames(_, _)
DecoratorNames(tree, decorator_list) ==
    IF decorator_list = << >> THEN << >>
    ELSE LET decorator == tree[Head(decorator_list)]
             this == IF IsInstance(decorator, "Name")
                     THEN << "@" \o decorator.id >>
                     ELSE IF IsInstance(decorator, "Call")
                             /\ IsInstance(tree[decorator.func], "Name")
                          THEN << "@" \o tree[decorator.func].id >>
                          ELSE << >>
         IN  this \o DecoratorNames(tree, Tail(decorator_list))

_extract_function(tree, n, file_name, content) ==
    LET node == tree[n]
        line_start == node.lineno
        line_end == node.end_lineno
        lines == Split(content, "\n")
    IN  [name |-> node.name,
         file |-> file_name,
         line_start |-> line_start,
         line_end |-> line_end,
         params |-> node.args,
         return_type |-> IF node.returns # 0
                         THEN << Unparse(tree, node.returns) >>
                         ELSE << >>,
         code |-> Join(Slice(lines, line_start - 1, line_end), "\n"),
         calls |-> CallNames(tree, Walk(tree, n)),
         is_async |-> IsInstance(node, "AsyncFunctionDef"),
         decorators |-> DecoratorNames(tree, node.decorator_list)]

\* the methods loop of _extract_class
RECURSIVE Methods(_, _, _, _)
Methods(tree, body, file_name, content) ==
    IF body = << >> THEN << >>
    ELSE (IF IsInstance(tree[Head(body)], "FunctionDef")
          THEN << _extract_function(tree, Head(body), file_name, content) >>
          ELSE << >>)
         \o Methods(tree, Tail(body), file_name, content)

\* the bases loop of _extract_class
RECURSIVE BaseNames(_, _)
BaseNames(tree, bases) ==
    IF bases = << >> THEN << >>
    ELSE LET base == tree[Head(bases)]
         IN  (IF IsInstance(base, "Name") THEN << base.id >>
              ELSE IF IsInstance(base, "Attribute") THEN << base.attr >>
              ELSE << >>)
             \o BaseNames(tree, Tail(bases))

_extract_class(tree, n, file_name, content) ==
    LET node == tree[n]
    IN  [name |-> node.name,
         file |-> file_name,
         line_start |-> node.lineno,
         line_end |-> node.end_lineno,
         methods |-> Methods(tree, node.body, file_name, content),
         bases |-> BaseNames(tree, node.bases)]

\* the import records _extract_import appends for one statement
_extract_import(node, file_name) ==
    IF IsInstance(node, "Import")
    THEN [i \in 1..Len(node.names) |->
            [file |-> file_name, line |-> node.lineno,
             module |-> node.names[i].name,
             names |-> << node.names[i].name >>,
             alias |-> node.names[i].asname]]
    ELSE << [file |-> file_name, line |-> node.lineno,
             module |-> IF Truthy(node.module) THEN node.module[1] ELSE "",
             names |-> [i \in 1..Len(node.names) |-> node.names[i].name],
             alias |-> IF Len(node.names) = 1 THEN node.names[1].asname
                       ELSE << >>] >>

\* the lists of a sequence of lists, one after the other
RECURSIVE Chain(_)
Chain(lists) ==
    IF lists = << >> THEN << >>
    ELSE Head(lists) \o Chain(Tail(lists))

\* the loop of _extract_python over ast.walk(tree): each branch appends to
\* a list of its own, so each list grows by the records of the nodes of its
\* kind, in the order of the walk
ExtractNodes(pd, tree, order, file_name, content) ==
    LET OfKind(kinds) == SelectSeq(order, LAMBDA n : tree[n].kind \in kinds)
        defs == OfKind({"FunctionDef"})
        classes == OfKind({"ClassDef"})
        imports == OfKind({"Import", "ImportFrom"})
    IN  [pd EXCEPT
           !.functions = @ \o [i \in 1..Len(defs) |->
               _extract_function(tree, defs[i], file_name, content)],
           !.classes = @ \o [i \in 1..Len(classes) |->
               _extract_class(tree, classes[i], file_name, content)],
           !.imports = @ \o Chain([i \in 1..Len(imports) |->
               _extract_import(tree[imports[i]], file_name)])]

_extract_python(pd, tree, file_name, content) ==
    ExtractNodes(pd, tree, Walk(tree, 1), file_name, content)

\* the exception raised inside the try block of parse_file, None when the
\* block ends or returns
RaisedInParseFile(f) ==
    IF ~f.decodable THEN << "UnicodeDecodeError" >>
    ELSE IF f.size > MAX_FILE_SIZE THEN << >>
    ELSE IF Suffix(f.name) = ".py" /\ ~f.syntax_ok THEN << "SyntaxError" >>
    ELSE << >>

\* the except clauses of parse_file; the last one takes every exception
ParseFileHandlers ==
    {"UnicodeDecodeError", "SyntaxError", "Exception"}

\* the exception that leaves parse_file, None when it returns
parse_file_raises(f) ==
    LET exc == RaisedInParseFile(f)
    IN  IF exc # << >> /\ exc[1] \notin ParseFileHandlers
           /\ "Exception" \notin ParseFileHandlers
        THEN exc
        ELSE << >>

\* parse_file, were the size of the file not looked at
parse_file_any_size(pd, f) ==
    IF ~f.decodable THEN pd
    ELSE IF Suffix(f.name) = ".py" /\ f.syntax_ok
         THEN _extract_python(pd, f.tree, f.name, f.content)
         ELSE pd

\* parse_file: parsed_data after reading one file.  An undecodable file and a
\* syntax error are caught and logged; an oversized file is skipped.
parse_file(pd, f) ==
    IF ~f.decodable THEN pd
    ELSE IF f.size > MAX_FILE_SIZE THEN pd
    ELSE IF Suffix(f.name) = ".py"
         THEN IF f.syntax_ok
              THEN _extract_python(pd, f.tree, f.name, f.content)
              ELSE pd
         ELSE pd

\* os.walk never enters a directory whose name is in IGNORE_DIRS
Ignored(f) ==
    \E i \in 1..Len(f.dir) : f.dir[i] \in IGNORE_DIRS

\* any(file.endswith(ext) for ext in Config.SUPPORTED_EXTENSIONS)
Eligible(f) ==
    \E ext \in SUPPORTED_EXTENSIONS : EndsWith(f.name, ext)

\* build_call_graph: a dict from function name to the calls of the last
\* function record of that name
RECURSIVE BuildCallGraphFrom(_, _)
BuildCallGraphFrom(cg, functions) ==
    IF functions = << >> THEN cg
    ELSE LET func == Head(functions)
             function_name == func.name
             called_functions == Get(func, "calls", << >>)
         IN  BuildCallGraphFrom(
                [k \in DOMAIN cg \cup {function_name} |->
                    IF k = function_name THEN called_functions ELSE cg[k]],
                Tail(functions))

build_call_graph(pd) ==
    BuildCallGraphFrom(<< >>, pd.functions)

-----------------------------------------------------------------------------
(* analyzer.py: CodeAnalyzer *)

BUILTINS ==
    {"print", "len", "range", "str", "int", "float", "list", "dict", "set", "tuple",
     "open", "input", "type", "isinstance", "issubclass", "hasattr", "getattr", "setattr",
     "delattr", "dir", "vars", "help", "min", "max", "sum", "abs", "round", "sorted",
     "reversed", "enumerate", "zip", "map", "filter", "all", "any", "next", "iter",
     "callable", "format", "repr", "eval", "exec", "compile", "chr", "ord", "bin", "hex",
     "oct", "id", "hash", "object", "property", "staticmethod", "classmethod",
     "upper", "lower", "title", "capitalize", "strip", "lstrip", "rstrip", "split",
     "join", "replace", "find", "rfind", "index", "count", "startswith", "endswith",
     "isalpha", "isdigit", "isalnum", "isspace", "islower", "isupper",
     "append", "extend", "insert", "remove", "pop", "clear", "sort",
     "reverse", "copy", "add", "update", "discard",
     "keys", "values", "items", "get", "setdefault", "popitem",
     "read", "write", "readline", "readlines", "writelines", "close", "flush", "seek", "tell",
     "exists", "is_file", "is_dir", "mkdir", "rmdir", "unlink", "rename", "absolute",
     "resolve", "parent", "name", "stem", "suffix",
     "load", "loads", "dump", "dumps",
     "ValueError", "TypeError", "KeyError", "IndexError", "AttributeError", "RuntimeError",
     "NotImplementedError", "Exception", "BaseException"}

\* nx.DiGraph()
EmptyGraph ==
    [nodes |-> {}, edges |-> {}]

\* DiGraph.add_node
add_node(g, n) ==
    [g EXCEPT !.nodes = @ \cup {n}]

\* add_edge, were the target not made a node
add_edge_source_only(g, u, v) ==
    [nodes |-> g.nodes \cup {u}, edges |-> g.edges \cup {<<u, v>>}]

\* add_edge, were the edge stored callee first
add_edge_reversed(g, u, v) ==
    [nodes |-> g.nodes \cup {u, v}, edges |-> g.edges \cup {<<v, u>>}]

\* DiGraph.add_edge: both end points become nodes of the graph
add_edge(g, u, v) ==
    [nodes |-> g.nodes \cup {u, v}, edges |-> g.edges \cup {<<u, v>>}]

\* in_degree, were the edges out of n counted
out_degree(g, n) ==
    Cardinality({e \in g.edges : e[1] = n})

\* DiGraph.in_degree(n): the number of edges into n
in_degree(g, n) ==
    Cardinality({e \in g.edges : e[2] = n})

\* the inner loop of _build_graph
RECURSIVE AddEdges(_, _, _)
AddEdges(g, name, calls) ==
    IF calls = << >> THEN g
    ELSE AddEdges(add_edge(g, name, Head(calls)), name, Tail(calls))

\* _build_graph, were it to leave out the functions the issue list of the
\* process already names
RECURSIVE BuildGraphWithoutReported(_, _)
BuildGraphWithoutReported(g, functions) ==
    IF functions = << >> THEN g
    ELSE LET func == Head(functions)
             reported == \E k \in 1..Len(issues) :
                            /\ "function" \in DOMAIN issues[k]
                            /\ issues[k].function = func.name
         IN  BuildGraphWithoutReported(
                IF reported THEN g
                ELSE AddEdges(add_node(g, func.name), func.name,
                              Get(func, "calls", << >>)),
                Tail(functions))

\* the loop of _build_graph over parsed_data['functions']
RECURSIVE BuildGraphFrom(_, _)
BuildGraphFrom(g, functions) ==
    IF functions = << >> THEN g
    ELSE LET func == Head(functions)
         IN  BuildGraphFrom(
                AddEdges(add_node(g, func.name), func.name, Get(func, "calls", << >>)),
                Tail(functions))

_build_graph(pd) ==
    BuildGraphFrom(EmptyGraph, pd.functions)

\* an issue about a function
FunctionIssue(type, severity, func, message) ==
    [type |-> type, severity |-> severity, file |-> func.file,
     line |-> func.line_start, function |-> func.name, message |-> message]

\* the names find_dead_code never reports
EntryPoints ==
    {"main", "__init__", "__main__", "__call__", "__str__", "__repr__"}

\* the three skips of find_dead_code
SkipDeadCode(func) ==
    \/ func.name \in EntryPoints
    \/ StartsWith(func.name, "__") /\ EndsWith(func.name, "__")
    \/ Get(func, "in_main_block", FALSE)

RECURSIVE DeadCodeFrom(_, _)
DeadCodeFrom(functions, g) ==
    IF functions = << >> THEN << >>
    ELSE LET func == Head(functions)
         IN  (IF ~SkipDeadCode(func) /\ in_degree(g, func.name) = 0
              THEN << FunctionIssue("dead_code", "warning", func,
                        "Function '" \o func.name \o "' is never called") >>
              ELSE << >>)
             \o DeadCodeFrom(Tail(functions), g)

find_dead_code(pd, g) ==
    DeadCodeFrom(pd.functions, g)

\* all_functions of find_broken_calls
all_functions(pd) ==
    {pd.functions[i].name : i \in 1..Len(pd.functions)}

\* all_imports, were the imported names not added to the modules
all_imports_modules_only(pd) ==
    {pd.imports[i].module : i \in 1..Len(pd.imports)}

\* all_imports of find_broken_calls: the modules and the imported names
all_imports(pd) ==
    {pd.imports[i].module : i \in 1..Len(pd.imports)}
    \cup UNION {{Get(pd.imports[i], "names", << >>)[k] :
                    k \in 1..Len(Get(pd.imports[i], "names", << >>))} :
                i \in 1..Len(pd.imports)}

RECURSIVE BrokenCallsOf(_, _, _)
BrokenCallsOf(func, calls, pd) ==
    IF calls = << >> THEN << >>
    ELSE LET called == Head(calls)
         IN  (IF called \in BUILTINS THEN << >>
              ELSE IF StartsWith(called, "_") THEN << >>
              ELSE IF called \notin all_functions(pd) /\ called \notin all_imports(pd)
                   THEN << FunctionIssue("broken_call", "error", func,
                            "Calls undefined function '" \o called \o "'") >>
                   ELSE << >>)
             \o BrokenCallsOf(func, Tail(calls), pd)

RECURSIVE BrokenCallsFrom(_, _)
BrokenCallsFrom(functions, pd) ==
    IF functions = << >> THEN << >>
    ELSE BrokenCallsOf(Head(functions), Get(Head(functions), "calls", << >>), pd)
         \o BrokenCallsFrom(Tail(functions), pd)

find_broken_calls(pd) ==
    BrokenCallsFrom(pd.functions, pd)

\* the TODO/FIXME check, were each marker reported on its own
MarkerIssuesPerMarker(func) ==
    (IF Contains(func.code, "TODO")
     THEN << FunctionIssue("placeholder", "info", func,
                "Function '" \o func.name \o "' has TODO/FIXME comment") >>
     ELSE << >>)
    \o (IF Contains(func.code, "FIXME")
        THEN << FunctionIssue("placeholder", "info", func,
                "Function '" \o func.name \o "' has TODO/FIXME comment") >>
        ELSE << >>)

\* the TODO/FIXME check of find_placeholders
MarkerIssues(func) ==
    IF Contains(func.code, "TODO") \/ Contains(func.code, "FIXME")
    THEN << FunctionIssue("placeholder", "info", func,
                "Function '" \o func.name \o "' has TODO/FIXME comment") >>
    ELSE << >>

\* the three checks of find_placeholders on one function
PlaceholdersOf(func) ==
    (IF Strip(func.code) = "pass"
     THEN << FunctionIssue("placeholder", "warning", func,
                "Function '" \o func.name \o "' is empty (only 'pass')") >>
     ELSE << >>)
    \o MarkerIssues(func)
    \o (IF Contains(func.code, "NotImplementedError")
        THEN << FunctionIssue("placeholder", "warning", func,
                "Function '" \o func.name \o "' raises NotImplementedError") >>
        ELSE << >>)

RECURSIVE PlaceholdersFrom(_)
PlaceholdersFrom(functions) ==
    IF functions = << >> THEN << >>
    ELSE PlaceholdersOf(Head(functions)) \o PlaceholdersFrom(Tail(functions))

find_placeholders(pd) ==
    PlaceholdersFrom(pd.functions)

\* the test of find_missing_returns, were the annotation None not excluded
MissingReturnAnyAnnotation(func) ==
    /\ Truthy(Get(func, "return_type", << >>))
    /\ ~Contains(func.code, "return")

\* the test of find_missing_returns on one function
MissingReturn(func) ==
    /\ Truthy(Get(func, "return_type", << >>))
    /\ func.return_type # << "None" >>
    /\ ~Contains(func.code, "return")

RECURSIVE MissingReturnsFrom(_)
MissingReturnsFrom(functions) ==
    IF functions = << >> THEN << >>
    ELSE LET func == Head(functions)
         IN  (IF MissingReturn(func)
              THEN << FunctionIssue("missing_return", "error", func,
                        "Function expects return type '" \o func.return_type[1]
                        \o "' but has no return") >>
              ELSE << >>)
             \o MissingReturnsFrom(Tail(functions))

find_missing_returns(pd) ==
    MissingReturnsFrom(pd.functions)

\* imports_by_file of find_unused_imports: a dict keyed by the file field of
\* the import records, in insertion order, as a tuple of [file, names]
RECURSIVE GroupImports(_, _)
GroupImports(groups, imports) ==
    IF imports = << >> THEN groups
    ELSE LET imp == Head(imports)
             file == imp.file
             known == \E i \in 1..Len(groups) : groups[i].file = file
             groups1 == IF known THEN groups
                        ELSE Append(groups, [file |-> file, names |-> << >>])
         IN  GroupImports(
                [i \in 1..Len(groups1) |->
                    IF groups1[i].file = file
                    THEN [groups1[i] EXCEPT !.names = @ \o imp.names]
                    ELSE groups1[i]],
                Tail(imports))

\* used_names of find_unused_imports: the calls of the functions whose file
\* field is file
used_names(pd, file) ==
    UNION {{Get(pd.functions[i], "calls", << >>)[k] :
                k \in 1..Len(Get(pd.functions[i], "calls", << >>))} :
           i \in {j \in 1..Len(pd.functions) : pd.functions[j].file = file}}

RECURSIVE UnusedOf(_, _, _)
UnusedOf(file, imports, used) ==
    IF imports = << >> THEN << >>
    ELSE (IF Head(imports) \notin used
          THEN << [type |-> "unused_import", severity |-> "info", file |-> file,
                   line |-> 0,
                   message |-> "Import '" \o Head(imports) \o "' is not used"] >>
          ELSE << >>)
         \o UnusedOf(file, Tail(imports), used)

RECURSIVE UnusedFrom(_, _)
UnusedFrom(groups, pd) ==
    IF groups = << >> THEN << >>
    ELSE UnusedOf(Head(groups).file, Head(groups).names,
                  used_names(pd, Head(groups).file))
         \o UnusedFrom(Tail(groups), pd)

\* imp['names'] of the grouping loop raises KeyError for an import record
\* without that key, before any issue of the pass is appended
find_unused_imports_raises(pd) ==
    \E i \in 1..Len(pd.imports) : "names" \notin DOMAIN pd.imports[i]

find_unused_imports(pd) ==
    IF find_unused_imports_raises(pd) THEN << >>
    ELSE UnusedFrom(GroupImports(<< >>, pd.imports), pd)

\* the five passes, in the order analyze calls them
Passes ==
    << "find_dead_code", "find_broken_calls", "find_placeholders",
       "find_missing_returns", "find_unused_imports" >>

\* a pass, were it to report nothing about a function that self.issues
\* already holds an issue for
RunPassOncePerFunction(p, pd, g, found) ==
    LET new == CASE p = "find_dead_code" -> find_dead_code(pd, g)
                 [] p = "find_broken_calls" -> find_broken_calls(pd)
                 [] p = "find_placeholders" -> find_placeholders(pd)
                 [] p = "find_missing_returns" -> find_missing_returns(pd)
                 [] p = "find_unused_imports" -> find_unused_imports(pd)
        known(x) == \E k \in 1..Len(found) :
                        /\ "function" \in DOMAIN found[k]
                        /\ "function" \in DOMAIN x
                        /\ found[k].function = x.function
                        /\ found[k].file = x.file
    IN  found \o SelectSeq(new, LAMBDA x : ~known(x))

\* a pass, were it to append only the issues self.issues does not hold yet
RunPassUnlessKnown(p, pd, g, found) ==
    LET new == CASE p = "find_dead_code" -> find_dead_code(pd, g)
                 [] p = "find_broken_calls" -> find_broken_calls(pd)
                 [] p = "find_placeholders" -> find_placeholders(pd)
                 [] p = "find_missing_returns" -> find_missing_returns(pd)
                 [] p = "find_unused_imports" -> find_unused_imports(pd)
    IN  found \o SelectSeq(new, LAMBDA x : \A k \in 1..Len(found) : found[k] # x)

\* self.issues after one pass: every pass appends what it finds
RunPass(p, pd, g, found) ==
    found \o (CASE p = "find_dead_code" -> find_dead_code(pd, g)
                [] p = "find_broken_calls" -> find_broken_calls(pd)
                [] p = "find_placeholders" -> find_placeholders(pd)
                [] p = "find_missing_returns" -> find_missing_returns(pd)
                [] p = "find_unused_imports" -> find_unused_imports(pd))

\* the exception a pass raises, None when it returns
PassRaises(p, pd) ==
    IF p = "find_unused_imports" /\ find_unused_imports_raises(pd)
    THEN << "KeyError" >>
    ELSE << >>

\* the body of analyze from its k-th call on: self.issues, the exception
\* that ends it and the number of passes that returned
RECURSIVE RunPasses(_, _, _, _)
RunPasses(k, pd, g, found) ==
    IF k > Len(Passes) THEN [issues |-> found, raised |-> << >>, returned |-> k - 1]
    ELSE LET after == RunPass(Passes[k], pd, g, found)
             exc == PassRaises(Passes[k], pd)
         IN  IF exc # << >>
             THEN [issues |-> after, raised |-> exc, returned |-> k - 1]
             ELSE RunPasses(k + 1, pd, g, after)

\* analyze: the five passes, each appending to self.issues
analyze(pd, g, found) ==
    RunPasses(1, pd, g, found).issues

\* the exception analyze raises, None when it returns
analyze_raises(pd, g, found) ==
    RunPasses(1, pd, g, found).raised

-----------------------------------------------------------------------------
(* JSON documents: what json.loads, Response.json and json.load read and    *)
(* json.dump writes, as the tree of their values.                           *)

JNull ==
    [t |-> "null"]

JString(s) ==
    [t |-> "string", s |-> s]

JNumber(n) ==
    [t |-> "number", n |-> n]

JArray(items) ==
    [t |-> "array", items |-> items]

\* members is the tuple of the <<key, value>> pairs, in document order
JObject(members) ==
    [t |-> "object", members |-> members]

\* key in d, for a dict read from a JSON object
HasMember(doc, key) ==
    \E k \in 1..Len(doc.members) : doc.members[k][1] = key

\* d[key]: of two members of the same key the later one is kept
Member(doc, key) ==
    LET at == {k \in 1..Len(doc.members) : doc.members[k][1] = key}
    IN  doc.members[CHOOSE k \in at : \A j \in at : j <= k][2]

-----------------------------------------------------------------------------
(* llm_describer.py: FunctionDescriber *)

\* d[key] = value
SetItem(d, key, value) ==
    [k \in DOMAIN d \cup {key} |-> IF k = key THEN value ELSE d[k]]

\* the array of {name, description} pairs the prompt asks for
DescriptionsText ==
    "[{\"name\": \"a\", \"description\": \"does a\"}, "
    \o "{\"name\": \"main\", \"description\": \"entry\"}, "
    \o "{\"name\": \"a\", \"description\": \"calls b\"}]"

\* an array whose descriptions are null
NullDescriptionsText ==
    "[{\"name\": \"a\", \"description\": null}, "
    \o "{\"name\": \"f\", \"description\": null}, "
    \o "{\"name\": \"g\", \"description\": null}, "
    \o "{\"name\": \"main\", \"description\": null}, "
    \o "{\"name\": \"__init__\", \"description\": null}]"

\* an array with a null description for b alone
NullForBText ==
    "[{\"name\": \"b\", \"description\": null}]"

Described(name, description) ==
    JObject(<< <<"name", JString(name)>>, <<"description", description>> >>)

\* json.loads on the texts the service is taken to answer with: the value
\* of a JSON text, a JSONDecodeError for any other text
json_loads(text) ==
    CASE text = DescriptionsText ->
            << JArray(<< Described("a", JString("does a")),
                         Described("main", JString("entry")),
                         Described("a", JString("calls b")) >>) >>
      [] text = NullDescriptionsText ->
            << JArray(<< Described("a", JNull), Described("f", JNull),
                         Described("g", JNull), Described("main", JNull),
                         Described("__init__", JNull) >>) >>
      [] text = NullForBText -> << JArray(<< Described("b", JNull) >>) >>
      [] text = "[]" -> << JArray(<< >>) >>
      [] text = "[{\"name\": \"a\"}]" ->
            << JArray(<< JObject(<< <<"name", JString("a")>> >>) >>) >>
      [] text = "{\"name\": \"a\"}" ->
            << JObject(<< <<"name", JString("a")>> >>) >>
      [] text = "42" -> << JNumber(42) >>
      [] OTHER -> << >>

\* the exception the dict comprehension {d['name']: d['description'] for d
\* in descriptions} raises, None when it builds desc_map
DescMapRaises(descriptions) ==
    IF descriptions.t = "array"
    THEN IF \E k \in 1..Len(descriptions.items) :
                descriptions.items[k].t # "object"
         THEN << "TypeError" >>
         ELSE IF \E k \in 1..Len(descriptions.items) :
                    \/ ~HasMember(descriptions.items[k], "name")
                    \/ ~HasMember(descriptions.items[k], "description")
              THEN << "KeyError" >>
              ELSE IF \E k \in 1..Len(descriptions.items) :
                         Member(descriptions.items[k], "name").t
                             \in {"array", "object"}
                   THEN << "TypeError" >>
                   ELSE << >>
    ELSE IF descriptions.t = "object"
    THEN IF descriptions.members # << >> THEN << "TypeError" >> ELSE << >>
    ELSE IF descriptions.t = "string"
    THEN IF descriptions.s # "" THEN << "TypeError" >> ELSE << >>
    ELSE << "TypeError" >>

\* the Python value of a description read from JSON: a str or None
DescriptionValue(doc) ==
    IF doc.t = "string" THEN << doc.s >> ELSE << >>

\* desc_map.get(name, default)
DescMapGet(descriptions, name, default) ==
    LET at == IF descriptions.t = "array"
              THEN {k \in 1..Len(descriptions.items) :
                        Member(descriptions.items[k], "name") = JString(name)}
              ELSE {}
    IN  IF at = {} THEN default
        ELSE DescriptionValue(
                Member(descriptions.items[CHOOSE k \in at : \A j \in at : j <= k],
                       "description"))

\* every function of the batch gets the description text(name)
WithFallback(functions, prefix, suffix) ==
    [k \in 1..Len(functions) |->
        SetItem(functions[k], "description",
                << prefix \o functions[k].name \o suffix >>)]

\* the three backquotes of a fenced code block; a TLA+ string cannot hold a
\* backquote, "~" stands for it
Fence ==
    "~~~"

\* the fenced code block is taken off before parsing
CleanText(response_text) ==
    LET t0 == Strip(response_text)
        t1 == IF StartsWith(t0, Fence \o "json") THEN SubSeq(t0, 8, Len(t0)) ELSE t0
        t2 == IF StartsWith(t1, Fence) THEN SubSeq(t1, 4, Len(t1)) ELSE t1
        t3 == IF EndsWith(t2, Fence) THEN SubSeq(t2, 1, Len(t2) - 3) ELSE t2
    IN  Strip(t3)

\* _parse_response: the batch with its descriptions, or the exception that
\* leaves it (a JSONDecodeError is handled inside)
_parse_response(response_text, functions) ==
    LET loaded == json_loads(CleanText(response_text))
    IN  IF loaded = << >>
        THEN [raised |-> << >>,
              functions |-> WithFallback(functions, "Funktsiya ",
                                         " - oshibka parsinga JSON")]
        ELSE LET descriptions == loaded[1]
             IN  IF DescMapRaises(descriptions) # << >>
                 THEN [raised |-> DescMapRaises(descriptions),
                       functions |-> functions]
                 ELSE [raised |-> << >>,
                       functions |->
                          [k \in 1..Len(functions) |->
                              SetItem(functions[k], "description",
                                  DescMapGet(descriptions, functions[k].name,
                                      << "Funktsiya " \o functions[k].name
                                         \o " (opisanie ne predostavleno)" >>))]]

\* what requests.post does for one batch: it raises, or returns a response
\* with a status and a body; json is the value of the body, None when the
\* body is not JSON
Raising(exception) ==
    [raises |-> << exception >>]

Response(status_code, json) ==
    [raises |-> << >>, status_code |-> status_code, json |-> json]

\* the body of a chat completion whose message content is text
Completion(text) ==
    JObject(<< <<"choices",
                 JArray(<< JObject(<< <<"message",
                     JObject(<< <<"content", JString(text)>> >>)>> >>) >>)>> >>)

ServiceReplies ==
    { Raising("Timeout"), Raising("ConnectionError"),
      Response(500, << >>), Response(200, << >>),
      Response(200, << JObject(<< >>) >>),
      Response(200, << Completion("I cannot describe these functions.") >>),
      Response(200, << Completion(DescriptionsText) >>),
      Response(200, << Completion(Fence \o "json\n" \o DescriptionsText \o "\n" \o Fence) >>),
      Response(200, << Completion(Fence \o "\n" \o DescriptionsText \o "\n" \o Fence \o "\n") >>),
      Response(200, << Completion(NullDescriptionsText) >>),
      Response(200, << Completion(NullForBText) >>),
      Response(200, << Completion("[]") >>),
      Response(200, << Completion("[{\"name\": \"a\"}]") >>),
      Response(200, << Completion("{\"name\": \"a\"}") >>),
      Response(200, << Completion("42") >>) }

\* result['choices'][0]['message']['content'], None when a step of it raises
ContentOf(result) ==
    IF result.t = "object" /\ HasMember(result, "choices")
    THEN LET choices == Member(result, "choices")
         IN  IF choices.t = "array" /\ choices.items # << >>
                /\ choices.items[1].t = "object"
                /\ HasMember(choices.items[1], "message")
             THEN LET message == Member(choices.items[1], "message")
                  IN  IF message.t = "object" /\ HasMember(message, "content")
                         /\ Member(message, "content").t = "string"
                      THEN << Member(message, "content").s >>
                      ELSE << >>
             ELSE << >>
    ELSE << >>

\* describe_functions_batch: every exception of the request and of the
\* parsing is caught and turned into a fallback description
describe_functions_batch(functions, reply) ==
    IF reply.raises = << "Timeout" >>
    THEN WithFallback(functions, "Function ", " (timeout)")
    ELSE IF reply.raises # << >>
    THEN WithFallback(functions, "Function ", " (error)")
    ELSE IF reply.status_code >= 400
    THEN WithFallback(functions, "Function ", " (API error)")
    ELSE IF reply.json = << >>
    THEN WithFallback(functions, "Function ", " (error)")
    ELSE IF ContentOf(reply.json[1]) = << >>
    THEN WithFallback(functions, "Function ", " (error)")
    ELSE LET parsed == _parse_response(ContentOf(reply.json[1])[1], functions)
         IN  IF parsed.raised # << >>
             THEN WithFallback(functions, "Function ", " (error)")
             ELSE parsed.functions

-----------------------------------------------------------------------------
(* visualizer.py: DataVisualizer *)

\* the printable ASCII characters in code point order: 32 to 95, and 97 to
\* 126 (a TLA+ string cannot hold the backquote, 96)
AsciiTo95 ==
    " !\"#$%&'()*+,-./0123456789:;<=>?@ABCDEFGHIJKLMNOPQRSTUVWXYZ[\\]^_"

AsciiFrom97 ==
    "abcdefghijklmnopqrstuvwxyz{|}~"

\* ord(c)
Ord(c) ==
    IF \E i \in 1..Len(AsciiTo95) : SubSeq(AsciiTo95, i, i) = c
    THEN 31 + (CHOOSE i \in 1..Len(AsciiTo95) : SubSeq(AsciiTo95, i, i) = c)
    ELSE 96 + (CHOOSE i \in 1..Len(AsciiFrom97) : SubSeq(AsciiFrom97, i, i) = c)

\* a < b for two str: the code points at the first difference decide
StrLess(a, b) ==
    LET n == IF Len(a) < Len(b) THEN Len(a) ELSE Len(b)
        diff == {i \in 1..n : SubSeq(a, i, i) # SubSeq(b, i, i)}
    IN  IF diff = {} THEN Len(a) < Len(b)
        ELSE LET i == CHOOSE d \in diff : \A e \in diff : d <= e
             IN  Ord(SubSeq(a, i, i)) < Ord(SubSeq(b, i, i))

\* the members of a set of numbers, in ascending order
Ascending(S) ==
    [n \in 1..Cardinality(S) |->
        CHOOSE k \in S : Cardinality({j \in S : j < k}) = n - 1]

\* the priority of _get_node_color: error > warning > info
_get_node_color(func, found) ==
    LET severities == {found[k].severity :
                          k \in {j \in 1..Len(found) :
                                    /\ "function" \in DOMAIN found[j]
                                    /\ found[j].function = func.name}}
    IN  IF severities = {} THEN "#4CAF50"
        ELSE IF "error" \in severities THEN "#F44336"
        ELSE IF "warning" \in severities THEN "#FF9800"
        ELSE "#2196F3"

\* f"{func['file']}:{func['name']}"
UniqueId(func) ==
    func.file \o ":" \o func.name

GraphNode(func, found) ==
    [id |-> UniqueId(func),
     label |-> func.name,
     title |-> Get(func, "description", << "" >>),
     group |-> func.file,
     color |-> _get_node_color(func, found),
     font |-> [color |-> "#ffffff"],
     data |-> [file |-> func.file,
               line |-> func.line_start,
               params |-> Get(func, "params", << >>),
               code |-> func.code,
               description |-> Get(func, "description", << "" >>)]]

\* the mapping, were a name mapped to the id of its first record only
func_name_to_first_id(functions, name) ==
    LET at == {k \in 1..Len(functions) : functions[k].name = name}
    IN  IF at = {} THEN << >>
        ELSE << UniqueId(functions[CHOOSE k \in at : \A j \in at : k <= j]) >>

\* func_name_to_ids.get(name, []): the ids of the records of that name, in
\* list order
func_name_to_ids(functions, name) ==
    LET at == Ascending({k \in 1..Len(functions) : functions[k].name = name})
    IN  [n \in 1..Len(at) |-> UniqueId(functions[at[n]])]

\* the innermost loop of prepare_graph_data: one edge per id
EdgesTo(from_id, ids) ==
    [n \in 1..Len(ids) |->
        [from |-> from_id, to |-> ids[n], arrows |-> "to",
         color |-> [color |-> "#666666"]]]

RECURSIVE EdgesOfCalls(_, _, _)
EdgesOfCalls(from_id, calls, functions) ==
    IF calls = << >> THEN << >>
    ELSE EdgesTo(from_id, func_name_to_ids(functions, Head(calls)))
         \o EdgesOfCalls(from_id, Tail(calls), functions)

RECURSIVE EdgesFrom(_, _)
EdgesFrom(rest, functions) ==
    IF rest = << >> THEN << >>
    ELSE EdgesOfCalls(UniqueId(Head(rest)), Get(Head(rest), "calls", << >>),
                      functions)
         \o EdgesFrom(Tail(rest), functions)

prepare_graph_data(functions, found) ==
    [nodes |-> [k \in 1..Len(functions) |-> GraphNode(functions[k], found)],
     edges |-> EdgesFrom(functions, functions)]

\* Path(file_path).parts of a relative path
Parts(file_path) ==
    SelectSeq(Split(file_path, "/"), LAMBDA part : part # "")

\* The nested dict of prepare_file_tree is kept as the tuple of the part
\* tuples it was built from; the keys of the dict found under the parts at,
\* in insertion order.
KeysUnder(paths, at) ==
    LET ext == {k \in 1..Len(paths) :
                    /\ Len(paths[k]) > Len(at)
                    /\ SubSeq(paths[k], 1, Len(at)) = at}
        first == {k \in ext : \A j \in ext :
                    j < k => paths[j][Len(at) + 1] # paths[k][Len(at) + 1]}
        order == Ascending(first)
    IN  [n \in 1..Len(order) |-> paths[order[n]][Len(at) + 1]]

RECURSIVE dict_to_tree(_, _, _)
dict_to_tree(paths, at, parent) ==
    LET keys == KeysUnder(paths, at)
    IN  [n \in 1..Len(keys) |->
            LET key == keys[n]
                value == KeysUnder(paths, Append(at, key))
            IN  [name |-> key,
                 path |-> IF parent # "" THEN parent \o "/" \o key ELSE key,
                 type |-> IF value # << >> THEN "folder" ELSE "file",
                 children |-> IF value # << >>
                              THEN dict_to_tree(paths, Append(at, key),
                                                parent \o "/" \o key)
                              ELSE << >>]]

prepare_file_tree(functions) ==
    dict_to_tree([k \in 1..Len(functions) |-> Parts(functions[k].file)],
                 << >>, "")

\* the order of the issues, were the sort key the line alone
LineLess(x, y) ==
    Get(x, "line", 0) < Get(y, "line", 0)

\* the sort key (x['file'], x.get('line', 0)), compared as tuples
KeyLess(x, y) ==
    \/ StrLess(x.file, y.file)
    \/ x.file = y.file /\ Get(x, "line", 0) < Get(y, "line", 0)

\* list.sort is stable: an issue goes behind the issues whose key is not
\* greater
RECURSIVE SortedByKey(_)
SortedByKey(lst) ==
    IF lst = << >> THEN << >>
    ELSE LET front == SortedByKey(SubSeq(lst, 1, Len(lst) - 1))
             x == lst[Len(lst)]
             n == Cardinality({k \in 1..Len(front) : ~KeyLess(x, front[k])})
         IN  SubSeq(front, 1, n) \o << x >> \o SubSeq(front, n + 1, Len(front))

\* the group of prepare_issues_list an issue is appended to
GroupOf(issue) ==
    IF issue.severity = "error" THEN "errors"
    ELSE IF issue.severity = "warning" THEN "warnings"
    ELSE "info"

prepare_issues_list(found) ==
    [category \in {"errors", "warnings", "info"} |->
        SortedByKey(SelectSeq(found, LAMBDA issue : GroupOf(issue) = category))]

\* len([i for i in self.issues if i[key] == value])
CountIssues(found, key, value) ==
    Cardinality({k \in 1..Len(found) : found[k][key] = value})

prepare_stats(functions, classes, found) ==
    [total_files |-> Cardinality({functions[k].file : k \in 1..Len(functions)}),
     total_functions |-> Len(functions),
     total_classes |-> Len(classes),
     total_issues |-> Len(found),
     errors |-> CountIssues(found, "severity", "error"),
     warnings |-> CountIssues(found, "severity", "warning"),
     dead_code |-> CountIssues(found, "type", "dead_code"),
     placeholders |-> CountIssues(found, "type", "placeholder")]

prepare_all_data(functions, classes, found) ==
    [graph |-> prepare_graph_data(functions, found),
     file_tree |-> prepare_file_tree(functions),
     issues |-> prepare_issues_list(found),
     stats |-> prepare_stats(functions, classes, found)]

-----------------------------------------------------------------------------
(* Parsed data handed to CodeAnalyzer directly: function and import records *)
(* as a caller may build them (optional keys may be absent).                *)

FuncRecord(name, file, line_start, code, return_type, calls) ==
    [name |-> name, file |-> file, line_start |-> line_start,
     line_end |-> line_start + Len(Split(code, "\n")) - 1, params |-> << >>,
     return_type |-> return_type, code |-> code, calls |-> calls,
     is_async |-> FALSE, decorators |-> << >>]

FuncA ==
    FuncRecord("a", "app.py", 4, "def a():\n    b()", << >>, << "b" >>)

\* a second a, in another file
FuncA2 ==
    FuncRecord("a", "other.py", 3, "def a():\n    print(ghost())", << >>,
               << "print", "ghost" >>)

FuncB ==
    FuncRecord("b", "app.py", 7, "def b() -> None:\n    pass", << "None" >>, << >>)

\* a second b, in another file, whose code is the bare body
FuncB2 ==
    FuncRecord("b", "other.py", 1, "    pass\n", << "int" >>, << "a", "zz", "zz" >>)

FuncMain ==
    FuncRecord("main", "app.py", 10, "def main():\n    return helper()  # FIXME",
               << >>, << "print", "_h", "helper", "os", "helpers", "join" >>)

FuncInit ==
    FuncRecord("__init__", "other.py", 5,
               "def __init__(self):\n    # TODO: FIXME later\n    self.x = missing()",
               << >>, << "missing" >>)

FuncDunder ==
    FuncRecord("__enter__", "other.py", 9, "def __enter__(self):\n    return self",
               << >>, << "rec" >>)

\* declared in a run-as-script block
FuncSetup ==
    FuncRecord("setup", "app.py", 20,
               "def setup() -> str:\n    # TODO FIXME\n    raise NotImplementedError",
               << "str" >>, << >>) @@ [in_main_block |-> TRUE]

\* calls itself; the only "return" of its text is in a comment
FuncRec ==
    FuncRecord("rec", "other.py", 12, "def rec() -> int:\n    rec()  # no return value",
               << "int" >>, << "rec" >>)

\* a record without the optional keys calls and return_type
FuncBare ==
    [name |-> "orphan", file |-> "app.py", line_start |-> 30, line_end |-> 30,
     code |-> "def orphan(): raise NotImplementedError"]

FuncPrivate ==
    FuncRecord("_h", "app.py", 40, "def _h():\n    undefined_fn()  # TODO", << >>,
               << "undefined_fn" >>) @@ [in_main_block |-> FALSE]

\* a second rec, in another file: each of the two calls both
FuncRec2 ==
    FuncRecord("rec", "pkg/app.py", 50, "def rec():\n    return rec()", << >>,
               << "rec" >>)

FuncPool ==
    {FuncA, FuncA2, FuncB, FuncB2, FuncMain, FuncInit, FuncDunder, FuncSetup, FuncRec,
     FuncBare, FuncPrivate, FuncRec2}

\* import records with all their keys
WellFormedImports ==
    << [file |-> "app.py", line |-> 1, module |-> "os", names |-> << "os" >>,
        alias |-> << >>],
       [file |-> "app.py", line |-> 2, module |-> "helpers",
        names |-> << "helper", "zz" >>, alias |-> << >>],
       [file |-> "other.py", line |-> 1, module |-> "pkg.tools",
        names |-> << "missing", "b" >>, alias |-> << >>] >>

\* the last record has no names
ImportPool ==
    {WellFormedImports[k] : k \in 1..Len(WellFormedImports)}
    \cup {[file |-> "other.py", line |-> 3, module |-> "json"]}

\* the tuples over S of length at most n
SeqsUpTo(S, n) ==
    UNION {[1..k -> S] : k \in 0..n}

-----------------------------------------------------------------------------
(* main.py: the persisted result.  json.dump writes a dict as an object of  *)
(* its items in insertion order, a list as an array, a str as a string, an  *)
(* int as a number and None as null; json.load reads them back.             *)

DumpStr(v) ==
    JString(v)

\* None, were it written as str writes it
DumpOptionalAsStr(v) ==
    JString(IF v = << >> THEN "None" ELSE v[1])

DumpOptional(v) ==
    IF v = << >> THEN JNull ELSE JString(v[1])

DumpStrings(lst) ==
    JArray([k \in 1..Len(lst) |-> JString(lst[k])])

DumpNode(node) ==
    JObject(<< <<"id", DumpStr(node.id)>>,
               <<"label", DumpStr(node.label)>>,
               <<"title", DumpOptional(node.title)>>,
               <<"group", DumpStr(node.group)>>,
               <<"color", DumpStr(node.color)>>,
               <<"font", JObject(<< <<"color", DumpStr(node.font.color)>> >>)>>,
               <<"data", JObject(<< <<"file", DumpStr(node.data.file)>>,
                                    <<"line", JNumber(node.data.line)>>,
                                    <<"params", DumpStrings(node.data.params)>>,
                                    <<"code", DumpStr(node.data.code)>>,
                                    <<"description",
                                      DumpOptional(node.data.description)>> >>)>> >>)

DumpEdge(edge) ==
    JObject(<< <<"from", DumpStr(edge.from)>>,
               <<"to", DumpStr(edge.to)>>,
               <<"arrows", DumpStr(edge.arrows)>>,
               <<"color", JObject(<< <<"color", DumpStr(edge.color.color)>> >>)>> >>)

RECURSIVE DumpTree(_)
DumpTree(nodes) ==
    JArray([k \in 1..Len(nodes) |->
        JObject(<< <<"name", DumpStr(nodes[k].name)>>,
                   <<"path", DumpStr(nodes[k].path)>>,
                   <<"type", DumpStr(nodes[k].type)>>,
                   <<"children", DumpTree(nodes[k].children)>> >>)])

\* an issue about a function has the key function, an import issue has not
DumpIssue(issue) ==
    JObject(<< <<"type", DumpStr(issue.type)>>,
               <<"severity", DumpStr(issue.severity)>>,
               <<"file", DumpStr(issue.file)>>,
               <<"line", JNumber(issue.line)>> >>
            \o (IF "function" \in DOMAIN issue
                THEN << <<"function", DumpStr(issue.function)>> >>
                ELSE << >>)
            \o << <<"message", DumpStr(issue.message)>> >>)

DumpIssues(lst) ==
    JArray([k \in 1..Len(lst) |-> DumpIssue(lst[k])])

StatKeys ==
    << "total_files", "total_functions", "total_classes", "total_issues",
       "errors", "warnings", "dead_code", "placeholders" >>

\* json.dump(self.results, f, indent=2, ensure_ascii=False)
json_dump(res) ==
    JObject(<<
        <<"graph", JObject(<<
            <<"nodes", JArray([k \in 1..Len(res.graph.nodes) |->
                                  DumpNode(res.graph.nodes[k])])>>,
            <<"edges", JArray([k \in 1..Len(res.graph.edges) |->
                                  DumpEdge(res.graph.edges[k])])>> >>)>>,
        <<"file_tree", DumpTree(res.file_tree)>>,
        <<"issues", JObject(<< <<"errors", DumpIssues(res.issues.errors)>>,
                               <<"warnings", DumpIssues(res.issues.warnings)>>,
                               <<"info", DumpIssues(res.issues.info)>> >>)>>,
        <<"stats", JObject([k \in 1..Len(StatKeys) |->
                              <<StatKeys[k], JNumber(res.stats[StatKeys[k]])>>])>> >>)

\* the value json.load gives for a string, a number, a string or null
LoadScalar(doc) ==
    IF doc.t = "string" THEN doc.s ELSE doc.n

LoadOptional(doc) ==
    IF doc.t = "null" THEN << >> ELSE << doc.s >>

\* a dict: one item per key of the object
LoadDict(doc) ==
    [key \in {doc.members[k][1] : k \in 1..Len(doc.members)} |->
        LoadScalar(Member(doc, key))]

LoadList(doc) ==
    [k \in 1..Len(doc.items) |-> LoadScalar(doc.items[k])]

LoadNode(doc) ==
    [id |-> LoadScalar(Member(doc, "id")),
     label |-> LoadScalar(Member(doc, "label")),
     title |-> LoadOptional(Member(doc, "title")),
     group |-> LoadScalar(Member(doc, "group")),
     color |-> LoadScalar(Member(doc, "color")),
     font |-> LoadDict(Member(doc, "font")),
     data |-> [file |-> LoadScalar(Member(Member(doc, "data"), "file")),
               line |-> LoadScalar(Member(Member(doc, "data"), "line")),
               params |-> LoadList(Member(Member(doc, "data"), "params")),
               code |-> LoadScalar(Member(Member(doc, "data"), "code")),
               description |->
                   LoadOptional(Member(Member(doc, "data"), "description"))]]

LoadEdge(doc) ==
    [from |-> LoadScalar(Member(doc, "from")),
     to |-> LoadScalar(Member(doc, "to")),
     arrows |-> LoadScalar(Member(doc, "arrows")),
     color |-> LoadDict(Member(doc, "color"))]

RECURSIVE LoadTree(_)
LoadTree(doc) ==
    [k \in 1..Len(doc.items) |->
        [name |-> LoadScalar(Member(doc.items[k], "name")),
         path |-> LoadScalar(Member(doc.items[k], "path")),
         type |-> LoadScalar(Member(doc.items[k], "type")),
         children |-> LoadTree(Member(doc.items[k], "children"))]]

LoadIssues(doc) ==
    [k \in 1..Len(doc.items) |-> LoadDict(doc.items[k])]

\* json.load(f)
json_load(doc) ==
    [graph |-> [nodes |-> [k \in 1..Len(Member(Member(doc, "graph"), "nodes").items) |->
                    LoadNode(Member(Member(doc, "graph"), "nodes").items[k])],
                edges |-> [k \in 1..Len(Member(Member(doc, "graph"), "edges").items) |->
                    LoadEdge(Member(Member(doc, "graph"), "edges").items[k])]],
     file_tree |-> LoadTree(Member(doc, "file_tree")),
     issues |-> [category \in {Member(doc, "issues").members[k][1] :
                                  k \in 1..Len(Member(doc, "issues").members)} |->
                    LoadIssues(Member(Member(doc, "issues"), category))],
     stats |-> LoadDict(Member(doc, "stats"))]

-----------------------------------------------------------------------------
(* ui/app.py: the progress entry of a run.  A progress value is kept as the *)
(* exact fraction num / den.                                                *)

Number(n) ==
    [num |-> n, den |-> 1]

\* an entry, were its status never to leave running
EntryStillRunning(status, message, value) ==
    << [status |-> "running", message |-> message, progress |-> value] >>

Entry(status, message, value) ==
    << [status |-> status, message |-> message, progress |-> value] >>

\* progress_callback, were the status told from the value reported
progress_callback_by_value(message, value) ==
    Entry(IF value = Number(100) THEN "completed" ELSE "running", message, value)

\* progress_callback of run_analysis: the status written is always running
progress_callback(message, value) ==
    Entry("running", message, value)

\* str(e)
ExceptionMessage(exc) ==
    CASE exc = << "TypeError" >> -> "'NoneType' object is not subscriptable"
      [] exc = << "KeyError" >> -> "'names'"
      [] exc = << "ValueError" >> -> "No results to save. Run analyze_project() first."
      [] OTHER -> ""

-----------------------------------------------------------------------------
(* The run of one analysis: run_analysis on its worker thread calls         *)
(* ProjectAnalyzer.analyze_project with progress_callback.                  *)

\* the tuples of distinct files of the pool, of length at most MaxFiles
Projects ==
    {p \in SeqsUpTo((1..Len(FilePool)) \ {LongFile}, MaxFiles) :
        \A i, j \in 1..Len(p) : i # j => p[i] # p[j]}

\* projects with no function, with three batches of functions, and with a
\* first function the service's payloads name
LongProjects ==
    {<< >>, << 10 >>, << LongFile >>, << 1, LongFile >>, << LongFile, 5 >>}

\* the POST /analyze handler has written the entry of the run and started
\* the thread
Init ==
    /\ project \in Projects
    /\ cursor = 1
    /\ parsed_data = EmptyParsedData
    /\ call_graph = EmptyGraph
    /\ issues = << >>
    /\ ran = {}
    /\ described = << >>
    /\ batch_start = 0
    /\ results = << >>
    /\ disk = << >>
    /\ raised = << >>
    /\ progress = Entry("running", "Starting analysis...", Number(0))
    /\ stored = << >>
    /\ delays = 0
    /\ model = << >>
    /\ llm_model = LLM_MODEL
    /\ started_with = llm_model
    /\ seen = << >>
    /\ fetched = << >>
    /\ pc = "start"

\* analyze_project up to CodeParser(project_path)
Start ==
    /\ pc = "start"
    /\ progress' = progress_callback("Parsing project structure...", Number(10))
    /\ raised' = << >>
    /\ pc' = "parse"
    /\ UNCHANGED <<web, delays, model, project, cursor, parsed_data, call_graph, issues, ran,
                   described, batch_start, results, disk, stored>>

\* one round of parse_project's loop over the files os.walk yields
ParseFile ==
    /\ pc = "parse"
    /\ cursor <= Len(project)
    /\ LET f == FilePool[project[cursor]]
           exc == IF ~Ignored(f) /\ Eligible(f) THEN parse_file_raises(f)
                  ELSE << >>
       IN  /\ parsed_data' = IF ~Ignored(f) /\ Eligible(f)
                             THEN parse_file(parsed_data, f)
                             ELSE parsed_data
           /\ raised' = exc
           /\ pc' = IF exc # << >> THEN "raised" ELSE pc
    /\ cursor' = cursor + 1
    /\ UNCHANGED <<web, delays, model, project, call_graph, issues, ran, described, batch_start,
                   results, disk, progress, stored>>

\* parse_project returns
ParseDone ==
    /\ pc = "parse"
    /\ cursor > Len(project)
    /\ progress' = progress_callback("Building call graph...", Number(30))
    /\ pc' = "graph"
    /\ UNCHANGED <<web, delays, model, project, cursor, parsed_data, call_graph, issues, ran,
                   described, batch_start, results, disk, raised, stored>>

\* analyze_project stores parser.build_call_graph()
BuildCallGraph ==
    /\ pc = "graph"
    /\ parsed_data' = [parsed_data EXCEPT !.call_graph = build_call_graph(parsed_data)]
    /\ progress' = progress_callback("Analyzing code issues...", Number(40))
    /\ pc' = "parsed"
    /\ UNCHANGED <<web, delays, model, project, cursor, call_graph, issues, ran, described,
                   batch_start, results, disk, raised, stored>>

\* CodeAnalyzer(parsed_data): a new graph, a new issue list
ConstructAnalyzer(position) ==
    /\ issues' = << >>
    /\ ran' = {}
    /\ call_graph' = _build_graph(parsed_data)
    /\ pc' = position
    /\ UNCHANGED <<web, delays, model, project, cursor, parsed_data, described, batch_start,
                   results, disk, raised, progress, stored>>

NewAnalyzer ==
    /\ pc = "parsed"
    /\ ConstructAnalyzer("ready")

\* a second CodeAnalyzer from the same parsed data, before or after the
\* first one has analyzed; the run ends with its construction
SecondAnalyzer ==
    /\ pc \in {"ready", "analyzed"}
    /\ ConstructAnalyzer("rebuilt")

\* analyzer.analyze()
Analyze ==
    /\ pc = "ready"
    /\ LET run == RunPasses(1, parsed_data, call_graph, issues)
       IN  /\ issues' = run.issues
           /\ ran' = ran \cup {Passes[k] : k \in 1..run.returned}
           /\ raised' = run.raised
           /\ pc' = IF run.raised # << >> THEN "raised" ELSE "analyzed"
    /\ UNCHANGED <<web, delays, model, project, cursor, parsed_data, call_graph, described,
                   batch_start, results, disk, progress, stored>>

\* a pass called on its own on an analyzer: it appends to self.issues
CallPass(p) ==
    /\ issues' = RunPass(p, parsed_data, call_graph, issues)
    /\ raised' = PassRaises(p, parsed_data)
    /\ ran' = IF PassRaises(p, parsed_data) # << >> THEN ran ELSE ran \cup {p}
    /\ pc' = IF PassRaises(p, parsed_data) # << >> THEN "raised" ELSE pc
    /\ UNCHANGED <<web, delays, model, project, cursor, parsed_data, call_graph, described,
                   batch_start, results, disk, progress, stored>>

\* the five passes, each called once, in any order
FindDeadCode ==
    /\ pc = "ready"
    /\ "find_dead_code" \notin ran
    /\ CallPass("find_dead_code")

FindBrokenCalls ==
    /\ pc = "ready"
    /\ "find_broken_calls" \notin ran
    /\ CallPass("find_broken_calls")

FindPlaceholders ==
    /\ pc = "ready"
    /\ "find_placeholders" \notin ran
    /\ CallPass("find_placeholders")

FindMissingReturns ==
    /\ pc = "ready"
    /\ "find_missing_returns" \notin ran
    /\ CallPass("find_missing_returns")

FindUnusedImports ==
    /\ pc = "ready"
    /\ "find_unused_imports" \notin ran
    /\ CallPass("find_unused_imports")

\* analyze_project up to the call of describe_all_functions, which starts
\* with an empty list: the describer is constructed with the model
\* configured now
DescribeStart ==
    /\ pc = "analyzed"
    /\ progress' = progress_callback("Generating function descriptions...",
                                     Number(60))
    /\ model' = << llm_model >>
    /\ described' = << >>
    /\ batch_start' = 0
    /\ delays' = 0
    /\ pc' = "describe"
    /\ UNCHANGED <<web, project, cursor, parsed_data, call_graph, issues, ran,
                   results, disk, raised, stored>>

\* the batch of describe_all_functions' loop at i, were it to start one
\* function early
BatchOverlapping(functions, i) ==
    Slice(functions, IF i > 0 THEN i - 1 ELSE 0, i + MAX_FUNCTIONS_PER_BATCH)

\* all_functions[i:i+batch_size]
BatchAt(functions, i) ==
    Slice(functions, i, i + MAX_FUNCTIONS_PER_BATCH)

\* the test before time.sleep, were the last batch followed by a delay too
WaitsAfterEveryBatch(i, total) ==
    i < total

\* if i + batch_size < total: time.sleep(3)
WaitsAfter(i, total) ==
    i + MAX_FUNCTIONS_PER_BATCH < total

\* the value reported before a batch, were it the share of the functions
\* described so far
BatchProgressOfList(i, total) ==
    [num |-> 100 * i, den |-> total]

\* 60 + (i / total) * 30
BatchProgress(i, total) ==
    [num |-> 60 * total + 30 * i, den |-> total]

\* one round of describe_all_functions' loop.  The batch holds the dicts of
\* parsed_data['functions'] themselves, so the descriptions show there too.
DescribeBatch ==
    /\ pc = "describe"
    /\ batch_start < Len(parsed_data.functions)
    /\ \E reply \in ServiceReplies :
          LET i == batch_start
              total == Len(parsed_data.functions)
              batch_size == MAX_FUNCTIONS_PER_BATCH
              last == IF i + batch_size < total THEN i + batch_size ELSE total
              batch == BatchAt(parsed_data.functions, i)
              described_batch == describe_functions_batch(batch, reply)
          IN  /\ progress' = progress_callback(
                    "Describing functions " \o ToString(i + 1) \o "-"
                        \o ToString(last) \o "...",
                    BatchProgress(i, total))
              /\ described' = described \o described_batch
              /\ parsed_data' = [parsed_data EXCEPT !.functions =
                    [k \in 1..total |->
                        IF i < k /\ k <= last THEN described_batch[k - i]
                        ELSE parsed_data.functions[k]]]
              /\ delays' = IF WaitsAfter(i, total) THEN delays + 1 ELSE delays
              /\ batch_start' = i + batch_size
    /\ UNCHANGED <<web, model, project, cursor, call_graph, issues, ran, results,
                   disk, raised, stored, pc>>

\* describe_all_functions returns; analyze_project logs the first described
\* function, slicing its description, and reports 90
DescribeDone ==
    /\ pc = "describe"
    /\ batch_start >= Len(parsed_data.functions)
    /\ IF described # << >> /\ Get(described[1], "description", << "N/A" >>) = << >>
       THEN /\ raised' = << "TypeError" >>
            /\ pc' = "raised"
            /\ UNCHANGED progress
       ELSE /\ progress' = progress_callback("Preparing visualization...",
                                             Number(90))
            /\ pc' = "visualize"
            /\ UNCHANGED raised
    /\ UNCHANGED <<web, delays, model, project, cursor, parsed_data, call_graph, issues, ran,
                   described, batch_start, results, disk, stored>>

\* DataVisualizer(...).prepare_all_data() and the last report
Visualize ==
    /\ pc = "visualize"
    /\ results' = << prepare_all_data(described, parsed_data.classes, issues) >>
    /\ progress' = progress_callback("Analysis complete!", Number(100))
    /\ pc' = "done"
    /\ UNCHANGED <<web, delays, model, project, cursor, parsed_data, call_graph, issues, ran,
                   described, batch_start, disk, raised, stored>>

\* the except clause of analyze_project, were it to report -1 and return
HandleErrorAndReturn ==
    /\ pc = "raised"
    /\ progress' = progress_callback("Error: " \o ExceptionMessage(raised),
                                     Number(-1))
    /\ raised' = << >>
    /\ pc' = "done"
    /\ UNCHANGED <<web, delays, model, project, cursor, parsed_data, call_graph, issues, ran,
                   described, batch_start, results, disk, stored>>

\* the except clause of analyze_project: report -1, raise again
HandleError ==
    /\ pc = "raised"
    /\ progress' = progress_callback("Error: " \o ExceptionMessage(raised),
                                     Number(-1))
    /\ pc' = "reraised"
    /\ UNCHANGED <<web, delays, model, project, cursor, parsed_data, call_graph, issues, ran,
                   described, batch_start, results, disk, raised, stored>>

\* run_analysis: analysis_results[project_id] = results
StoreResults ==
    /\ pc = "done"
    /\ stored' = results
    /\ pc' = "stored"
    /\ UNCHANGED <<web, delays, model, project, cursor, parsed_data, call_graph, issues, ran,
                   described, batch_start, results, disk, raised, progress>>

\* run_analysis: the entry of the run becomes completed
Complete ==
    /\ pc = "stored"
    /\ progress' = Entry("completed", "Analysis complete!", Number(100))
    /\ pc' = "completed"
    /\ UNCHANGED <<web, delays, model, project, cursor, parsed_data, call_graph, issues, ran,
                   described, batch_start, results, disk, raised, stored>>

\* the except clause of run_analysis
ReportError ==
    /\ pc = "reraised"
    /\ progress' = Entry("error", ExceptionMessage(raised), Number(-1))
    /\ pc' = "error"
    /\ UNCHANGED <<web, delays, model, project, cursor, parsed_data, call_graph, issues, ran,
                   described, batch_start, results, disk, raised, stored>>

\* save_results, called while no analysis is running
SaveResults ==
    /\ pc \in {"start", "completed", "error"}
    /\ IF results = << >>
       THEN /\ raised' = << "ValueError" >>
            /\ UNCHANGED <<disk, pc>>
       ELSE /\ disk' = << json_dump(results[1]) >>
            /\ raised' = << >>
            /\ pc' = "saved"
    /\ UNCHANGED <<web, delays, model, project, cursor, parsed_data, call_graph, issues, ran,
                   described, batch_start, results, progress, stored>>

\* load_results of the file save_results wrote
LoadResults ==
    /\ pc = "saved"
    /\ results' = << json_load(disk[1]) >>
    /\ pc' = "loaded"
    /\ UNCHANGED <<web, delays, model, project, cursor, parsed_data, call_graph, issues, ran,
                   described, batch_start, disk, raised, progress, stored>>

Next ==
    \/ Start
    \/ ParseFile
    \/ ParseDone
    \/ BuildCallGraph
    \/ NewAnalyzer
    \/ Analyze
    \/ DescribeStart
    \/ DescribeBatch
    \/ DescribeDone
    \/ Visualize
    \/ HandleError
    \/ StoreResults
    \/ Complete
    \/ ReportError
    \/ SaveResults
    \/ LoadResults

Spec == Init /\ [][Next]_vars

\* the same run on the projects with many functions
InitLong ==
    /\ project \in LongProjects
    /\ cursor = 1
    /\ parsed_data = EmptyParsedData
    /\ call_graph = EmptyGraph
    /\ issues = << >>
    /\ ran = {}
    /\ described = << >>
    /\ batch_start = 0
    /\ results = << >>
    /\ disk = << >>
    /\ raised = << >>
    /\ progress = Entry("running", "Starting analysis...", Number(0))
    /\ stored = << >>
    /\ delays = 0
    /\ model = << >>
    /\ llm_model = LLM_MODEL
    /\ started_with = llm_model
    /\ seen = << >>
    /\ fetched = << >>
    /\ pc = "start"

SpecLong == InitLong /\ [][Next]_vars

\* CodeAnalyzer and DataVisualizer on any parsed data: at most MaxFuncs
\* function records and MaxImports import records
InitRecords ==
    /\ project = << >>
    /\ cursor = 1
    /\ \E fs \in SeqsUpTo(FuncPool, MaxFuncs), is \in SeqsUpTo(ImportPool, MaxImports) :
          parsed_data = [EmptyParsedData EXCEPT !.functions = fs, !.imports = is]
    /\ call_graph = EmptyGraph
    /\ issues = << >>
    /\ ran = {}
    /\ described = << >>
    /\ batch_start = 0
    /\ results = << >>
    /\ disk = << >>
    /\ raised = << >>
    /\ progress = << >>
    /\ stored = << >>
    /\ delays = 0
    /\ model = << >>
    /\ llm_model = LLM_MODEL
    /\ started_with = llm_model
    /\ seen = << >>
    /\ fetched = << >>
    /\ pc = "parsed"

\* DataVisualizer(parsed_data, issues, parsed_data['functions'])
\*     .prepare_all_data()
VisualizeRecords ==
    /\ pc = "analyzed"
    /\ results' = << prepare_all_data(parsed_data.functions, parsed_data.classes,
                                      issues) >>
    /\ pc' = "done"
    /\ UNCHANGED <<web, delays, model, project, cursor, parsed_data, call_graph, issues, ran,
                   described, batch_start, disk, raised, progress, stored>>

NextRecords ==
    \/ NewAnalyzer
    \/ SecondAnalyzer
    \/ Analyze
    \/ VisualizeRecords

SpecRecords == InitRecords /\ [][NextRecords]_vars

\* The passes of one CodeAnalyzer called one by one, in any order, on at
\* most MaxPassFuncs function records and the well-formed import records
InitPasses ==
    /\ project = << >>
    /\ cursor = 1
    /\ \E fs \in SeqsUpTo(FuncPool, MaxPassFuncs) :
          parsed_data = [EmptyParsedData EXCEPT !.functions = fs,
                                                !.imports = WellFormedImports]
    /\ call_graph = EmptyGraph
    /\ issues = << >>
    /\ ran = {}
    /\ described = << >>
    /\ batch_start = 0
    /\ results = << >>
    /\ disk = << >>
    /\ raised = << >>
    /\ progress = << >>
    /\ stored = << >>
    /\ delays = 0
    /\ model = << >>
    /\ llm_model = LLM_MODEL
    /\ started_with = llm_model
    /\ seen = << >>
    /\ fetched = << >>
    /\ pc = "parsed"

NextPasses ==
    \/ NewAnalyzer
    \/ FindDeadCode
    \/ FindBrokenCalls
    \/ FindPlaceholders
    \/ FindMissingReturns
    \/ FindUnusedImports

SpecPasses == InitPasses /\ [][NextPasses]_vars

-----------------------------------------------------------------------------
(* Properties.  An issue names a function by (file, line, function) only,   *)
(* so issues are counted per such key and compared with the number of       *)
(* function records of that key.                                            *)

FuncIdx ==
    1..Len(parsed_data.functions)

FuncAt(i) ==
    parsed_data.functions[i]

CallsOf(i) ==
    IF "calls" \in DOMAIN FuncAt(i) THEN FuncAt(i).calls ELSE << >>

\* the call occurrences <<i, k>>: the k-th call of the i-th function record
CallOccurrences ==
    UNION {{<<i, k>> : k \in 1..Len(CallsOf(i))} : i \in FuncIdx}

Key(i) ==
    << FuncAt(i).file, FuncAt(i).line_start, FuncAt(i).name >>

SameKey(i) ==
    {j \in FuncIdx : Key(j) = Key(i)}

\* the positions in the issue list of the issues of a type about a key
IssuesAt(type, key) ==
    {n \in 1..Len(issues) :
        /\ issues[n].type = type
        /\ "function" \in DOMAIN issues[n]
        /\ << issues[n].file, issues[n].line, issues[n].function >> = key}

IssuesOfType(type) ==
    {n \in 1..Len(issues) : issues[n].type = type}

\* every issue of the type is about the key of some function record
AllAboutFunctions(type) ==
    \A n \in IssuesOfType(type) :
        /\ "function" \in DOMAIN issues[n]
        /\ \E i \in FuncIdx :
              Key(i) = << issues[n].file, issues[n].line, issues[n].function >>

CalledAnywhere(name) ==
    \E o \in CallOccurrences : CallsOf(o[1])[o[2]] = name

IsDunder(name) ==
    /\ Len(name) >= 2
    /\ SubSeq(name, 1, 2) = "__"
    /\ SubSeq(name, Len(name) - 1, Len(name)) = "__"

\* the function records the dead-code rule reports
IsDeadCode(i) ==
    /\ FuncAt(i).name \notin
          {"main", "__init__", "__main__", "__call__", "__str__", "__repr__"}
    /\ ~IsDunder(FuncAt(i).name)
    /\ ~("in_main_block" \in DOMAIN FuncAt(i) /\ FuncAt(i).in_main_block)
    /\ ~CalledAnywhere(FuncAt(i).name)

\* C1: after analyze(), a function record has exactly one dead_code warning at
\* its line_start iff its name is no entry point and no dunder name, it is not
\* flagged in_main_block and no function record of the project (itself
\* included) calls its name; no other dead_code issue exists.  For a calling
\* b and b calling nothing the graph is nodes {a, b}, edge a -> b, and a alone
\* is reported.
C1_DeadCodeIffUncalled ==
    pc = "analyzed" =>
        /\ \A i \in FuncIdx :
              /\ Cardinality(IssuesAt("dead_code", Key(i)))
                    = Cardinality({j \in SameKey(i) : IsDeadCode(j)})
              /\ \A n \in IssuesAt("dead_code", Key(i)) :
                    issues[n].severity = "warning"
        /\ AllAboutFunctions("dead_code")
        /\ parsed_data.functions = << FuncA, FuncB >> =>
              /\ call_graph = [nodes |-> {"a", "b"}, edges |-> {<< "a", "b" >>}]
              /\ Cardinality(IssuesAt("dead_code", << "app.py", 4, "a" >>)) = 1
              /\ IssuesAt("dead_code", << "app.py", 7, "b" >>) = {}

\* a calls b, b calls nothing: a is reported, b is not, and elsewhere a called
\* function record, a flagged one and an entry point are analyzed
C1_Witness ==
    /\ pc = "analyzed"
    /\ parsed_data.functions = << FuncA, FuncB >>
    /\ IssuesAt("dead_code", << "app.py", 4, "a" >>) # {}

\* the call occurrences the broken-call rule reports
IsBrokenCall(o) ==
    LET c == CallsOf(o[1])[o[2]]
    IN  /\ c \notin BUILTINS
        /\ ~(Len(c) >= 1 /\ SubSeq(c, 1, 1) = "_")
        /\ \A j \in FuncIdx : FuncAt(j).name # c
        /\ \A m \in 1..Len(parsed_data.imports) :
              /\ parsed_data.imports[m].module # c
              /\ \A q \in 1..Len(parsed_data.imports[m].names) :
                    parsed_data.imports[m].names[q] # c

BrokenCallIssues(key, c) ==
    {n \in IssuesAt("broken_call", key) :
        /\ issues[n].severity = "error"
        /\ issues[n].message = "Calls undefined function '" \o c \o "'"}

\* C3: find_broken_calls emits one broken_call error, at the caller's
\* line_start and naming the caller, per call occurrence of a name that is not
\* in BUILTINS, does not start with "_", is no declared function and is neither
\* module nor imported name of any import record; it emits no other one.
C3_BrokenCallPerOccurrence ==
    pc = "analyzed" =>
        /\ \A o \in CallOccurrences :
              Cardinality(BrokenCallIssues(Key(o[1]), CallsOf(o[1])[o[2]]))
                = Cardinality({x \in CallOccurrences :
                                  /\ Key(x[1]) = Key(o[1])
                                  /\ CallsOf(x[1])[x[2]] = CallsOf(o[1])[o[2]]
                                  /\ IsBrokenCall(x)})
        /\ Cardinality(IssuesOfType("broken_call"))
              = Cardinality({o \in CallOccurrences : IsBrokenCall(o)})
        /\ AllAboutFunctions("broken_call")

\* main calls helper, which only another file's import record names: no issue
\* for it, while a name nobody declares or imports is reported
C3_Witness ==
    /\ pc = "analyzed"
    /\ \E i \in FuncIdx :
          /\ FuncAt(i) = FuncMain
          /\ BrokenCallIssues(Key(i), "helper") = {}
          /\ BrokenCallIssues(Key(i), "helpers") = {}
          /\ BrokenCallIssues(Key(i), "os") # {}
    /\ \E m \in 1..Len(parsed_data.imports) :
          parsed_data.imports[m].module = "helpers"

PlaceholderIssues(key, severity, message) ==
    {n \in IssuesAt("placeholder", key) :
        issues[n].severity = severity /\ issues[n].message = message}

HasMarker(i) ==
    Contains(FuncAt(i).code, "TODO") \/ Contains(FuncAt(i).code, "FIXME")

HasBothMarkers(i) ==
    Contains(FuncAt(i).code, "TODO") /\ Contains(FuncAt(i).code, "FIXME")

RaisesNotImplemented(i) ==
    Contains(FuncAt(i).code, "NotImplementedError")

\* C5: the placeholder checks are independent, one issue per function and
\* triggered check: a function whose text holds both TODO and FIXME gets one
\* info issue for the markers (not one per marker), and a NotImplementedError
\* warning exactly when its text also holds NotImplementedError; these, and an
\* "only pass" warning, are all its placeholder issues.
C5_OneIssuePerTriggeredCheck ==
    pc = "analyzed" =>
        \A i \in FuncIdx :
            HasBothMarkers(i) =>
                LET name == FuncAt(i).name
                    marker == PlaceholderIssues(Key(i), "info",
                                "Function '" \o name \o "' has TODO/FIXME comment")
                    raises == PlaceholderIssues(Key(i), "warning",
                                "Function '" \o name \o "' raises NotImplementedError")
                    empty == PlaceholderIssues(Key(i), "warning",
                                "Function '" \o name \o "' is empty (only 'pass')")
                IN  /\ Cardinality(marker)
                        = Cardinality({j \in SameKey(i) : HasMarker(j)})
                    /\ Cardinality(raises)
                        = Cardinality({j \in SameKey(i) : RaisesNotImplemented(j)})
                    /\ Cardinality(IssuesAt("placeholder", Key(i)))
                        = Cardinality(marker) + Cardinality(raises) + Cardinality(empty)
                    /\ Cardinality(empty)
                        = Cardinality({j \in SameKey(i) : Strip(FuncAt(j).code) = "pass"})

\* a function with both markers and NotImplementedError has two placeholder
\* issues, one with both markers and without it has one
C5_Witness ==
    /\ pc = "analyzed"
    /\ \E i, j \in FuncIdx :
          /\ HasBothMarkers(i) /\ RaisesNotImplemented(i)
          /\ Cardinality(IssuesAt("placeholder", Key(i))) = 2
          /\ HasBothMarkers(j) /\ ~RaisesNotImplemented(j)
          /\ Cardinality(IssuesAt("placeholder", Key(j))) = 1

\* the function records with an annotation other than None and no "return"
\* anywhere in their text
LacksReturn(i) ==
    /\ "return_type" \in DOMAIN FuncAt(i)
    /\ FuncAt(i).return_type # << >>
    /\ FuncAt(i).return_type # << "None" >>
    /\ \A p \in 1..Len(FuncAt(i).code) :
          p + 5 <= Len(FuncAt(i).code) => SubSeq(FuncAt(i).code, p, p + 5) # "return"

\* C6: a function record with a return_type other than None gets exactly one
\* missing_return error if "return" occurs nowhere in its text, none if it
\* occurs anywhere (even in a comment); a record with no annotation or with
\* annotation None never gets one.
C6_MissingReturnIffNoReturnText ==
    pc = "analyzed" =>
        /\ \A i \in FuncIdx :
              /\ Cardinality(IssuesAt("missing_return", Key(i)))
                    = Cardinality({j \in SameKey(i) : LacksReturn(j)})
              /\ \A n \in IssuesAt("missing_return", Key(i)) :
                    issues[n].severity = "error"
        /\ AllAboutFunctions("missing_return")

\* an annotated function without "return" is reported, one whose only
\* "return" is in a comment and one annotated None are not
C6_Witness ==
    /\ pc = "analyzed"
    /\ \E i, j \in FuncIdx :
          /\ FuncAt(i) = FuncSetup
          /\ Cardinality(IssuesAt("missing_return", Key(i))) = 1
          /\ FuncAt(j) \in {FuncRec, FuncB}
          /\ IssuesAt("missing_return", Key(j)) = {}

FunctionNames ==
    {FuncAt(i).name : i \in FuncIdx}

CalleeNames ==
    {CallsOf(o[1])[o[2]] : o \in CallOccurrences}

\* C8 as stated: the node set of the analyzer's graph is exactly the set of
\* function names, a dangling callee is never a node.
C8_NodesAreFunctionNames ==
    pc \in {"ready", "analyzed"} => call_graph.nodes = FunctionNames

\* C8, amended: the node set is the set of function names together with every
\* call-site name: add_edge makes a dangling callee a node too.
C8_NodesAreNamesAndCallees ==
    pc \in {"ready", "analyzed"} =>
        /\ call_graph.nodes = FunctionNames \cup CalleeNames
        /\ FunctionNames \subseteq call_graph.nodes

\* a graph with a node that is no declared function
C8_Witness ==
    /\ pc = "ready"
    /\ \E n \in call_graph.nodes : n \notin FunctionNames

\* C9: the edges of the analyzer's graph are exactly the pairs f.name -> c for
\* a function record f and a name c of f.calls; dangling targets are accepted
\* and same-named functions of different files share one source node.
C9_EdgesAreTheCalls ==
    pc \in {"ready", "analyzed"} =>
        call_graph.edges
            = {<< FuncAt(o[1]).name, CallsOf(o[1])[o[2]] >> : o \in CallOccurrences}

\* two records named a, in different files, both calling: their edges leave
\* the one node a, one of them to a name nobody declares
C9_Witness ==
    /\ pc = "ready"
    /\ parsed_data.functions = << FuncA, FuncA2 >>
    /\ << "a", "b" >> \in call_graph.edges
    /\ << "a", "ghost" >> \in call_graph.edges
    /\ "ghost" \notin FunctionNames

-----------------------------------------------------------------------------
(* Properties of the whole pipeline: what was declared in the source files, *)
(* read off their syntax trees, against the records and the issues.         *)

\* the files of the project that parse_project has read and extracted
ParsedFiles ==
    {k \in {project[i] : i \in 1..(cursor - 1)} :
        LET f == FilePool[k]
        IN  /\ ~Ignored(f)
            /\ Eligible(f)
            /\ f.decodable
            /\ f.size <= MAX_FILE_SIZE
            /\ Suffix(f.name) = ".py"
            /\ f.syntax_ok}

TreeOf(k) ==
    FilePool[k].tree

\* the function declarations of a file, synchronous and asynchronous
Declarations(k) ==
    {n \in 1..Len(TreeOf(k)) : TreeOf(k)[n].kind \in {"FunctionDef", "AsyncFunctionDef"}}

\* the key under which issues name the declaration n of file k
DeclKey(k, n) ==
    << FilePool[k].name, TreeOf(k)[n].lineno, TreeOf(k)[n].name >>

Within(tree, m) ==
    {Walk(tree, m)[x] : x \in 1..Len(Walk(tree, m))}

\* an if statement testing __name__ == '__main__'
IsMainBlock(tree, m) ==
    /\ tree[m].kind = "If"
    /\ LET test == tree[tree[m].children[1]]
       IN  /\ test.kind = "Compare"
           /\ \E c \in 1..Len(test.children) : tree[test.children[c]].id = "__name__"
           /\ \E c \in 1..Len(test.children) :
                 tree[test.children[c]].text = "'__main__'"

InMainBlock(k, n) ==
    \E m \in 1..Len(TreeOf(k)) :
        IsMainBlock(TreeOf(k), m) /\ n \in Within(TreeOf(k), m)

\* C2: a function declared inside an if __name__ == '__main__': block that no
\* function calls is exempt from dead-code detection: its record carries the
\* run-as-script flag and it gets no dead_code issue.
C2_MainBlockExempt ==
    pc = "analyzed" =>
        \A k \in ParsedFiles : \A n \in Declarations(k) :
            (InMainBlock(k, n) /\ ~CalledAnywhere(TreeOf(k)[n].name)) =>
                /\ \E i \in FuncIdx :
                      /\ Key(i) = DeclKey(k, n)
                      /\ "in_main_block" \in DOMAIN FuncAt(i)
                      /\ FuncAt(i).in_main_block
                /\ IssuesAt("dead_code", DeclKey(k, n)) = {}

\* the statements of the body of declaration n: its children other than the
\* arguments, the decorators and the annotation
BodyOf(k, n) ==
    LET node == TreeOf(k)[n]
    IN  {node.children[c] : c \in 1..Len(node.children)}
            \ ({node.returns}
               \cup {node.decorator_list[d] : d \in 1..Len(node.decorator_list)}
               \cup {x \in 1..Len(TreeOf(k)) : TreeOf(k)[x].kind = "arguments"})

BodyIsPass(k, n) ==
    /\ Cardinality(BodyOf(k, n)) = 1
    /\ \A b \in BodyOf(k, n) : TreeOf(k)[b].kind = "Pass"

\* C4: parse then analyze: a function whose body is exactly pass yields the
\* "only pass" placeholder warning, and one annotated int with body pass
\* yields both that warning and a missing_return error.
C4_PassBodyIsPlaceholder ==
    pc = "analyzed" =>
        \A k \in ParsedFiles : \A n \in Declarations(k) :
            (TreeOf(k)[n].kind = "FunctionDef" /\ BodyIsPass(k, n)) =>
                /\ PlaceholderIssues(DeclKey(k, n), "warning",
                        "Function '" \o TreeOf(k)[n].name \o "' is empty (only 'pass')")
                     # {}
                /\ (TreeOf(k)[n].returns # 0
                    /\ Unparse(TreeOf(k), TreeOf(k)[n].returns) = "int") =>
                       IssuesAt("missing_return", DeclKey(k, n)) # {}

\* the records of one file alone
RecordsOf(k) ==
    parse_file(EmptyParsedData, FilePool[k])

ImportedNames(k) ==
    UNION {{RecordsOf(k).imports[m].names[q] :
                q \in 1..Len(RecordsOf(k).imports[m].names)} :
           m \in 1..Len(RecordsOf(k).imports)}

CallSiteNames(k) ==
    UNION {{RecordsOf(k).functions[i].calls[c] :
                c \in 1..Len(RecordsOf(k).functions[i].calls)} :
           i \in 1..Len(RecordsOf(k).functions)}

UnusedImportIssues(file_name, imp_name) ==
    {n \in IssuesOfType("unused_import") :
        /\ issues[n].file = file_name
        /\ issues[n].line = 0
        /\ issues[n].severity = "info"
        /\ issues[n].message = "Import '" \o imp_name \o "' is not used"}

\* C7: for every file with imports, an imported name that no function of that
\* file calls yields one unused_import info issue at line 0 for that file, and
\* one that a function of the file calls yields none, also when the name is
\* imported twice in the file and when two files of different directories
\* share a file name (issues carry the file name only, so they are counted
\* over the files of that name).
C7_UnusedImportPerFile ==
    pc = "analyzed" =>
        \A k \in ParsedFiles : \A x \in ImportedNames(k) :
            Cardinality(UnusedImportIssues(FilePool[k].name, x))
                = Cardinality({j \in ParsedFiles :
                                  /\ FilePool[j].name = FilePool[k].name
                                  /\ x \in ImportedNames(j)
                                  /\ x \notin CallSiteNames(j)})

\* C10: every function declaration of a parsed file, at any depth, def or
\* async def, has a record in the functions list, whose is_async is true
\* exactly for an async def.
C10_EveryDeclarationHasARecord ==
    pc # "parse" =>
        \A k \in ParsedFiles : \A n \in Declarations(k) :
            \E i \in FuncIdx :
                /\ Key(i) = DeclKey(k, n)
                /\ FuncAt(i).is_async = (TreeOf(k)[n].kind = "AsyncFunctionDef")

-----------------------------------------------------------------------------
(* Properties of parse_project on files that cannot be read or parsed.      *)

\* the files parse_project has gone through so far that were extracted, in
\* the order of the walk
ExtractedSoFar ==
    SelectSeq(SubSeq(project, 1, cursor - 1), LAMBDA k : k \in ParsedFiles)

\* the files gone through so far that are oversized, undecodable or
\* syntactically invalid
BadSoFar ==
    {k \in {project[i] : i \in 1..(cursor - 1)} :
        LET f == FilePool[k]
        IN  /\ ~Ignored(f)
            /\ Eligible(f)
            /\ \/ ~f.decodable
               \/ f.size > MAX_FILE_SIZE
               \/ Suffix(f.name) = ".py" /\ ~f.syntax_ok}

\* the records of the files ks alone, extracted one file after the other
RECURSIVE ExtractAll(_, _)
ExtractAll(pd, ks) ==
    IF ks = << >> THEN pd
    ELSE ExtractAll(_extract_python(pd, FilePool[Head(ks)].tree,
                                    FilePool[Head(ks)].name,
                                    FilePool[Head(ks)].content),
                    Tail(ks))

\* C11: during parse_project an oversized, undecodable or syntactically
\* invalid file contributes no function, class or import record, does not
\* make parse_project raise, and the records of the other files are those
\* of a project without the bad file.
C11_BadFilesContributeNothing ==
    /\ pc \in {"parse", "graph"} =>
          /\ raised = << >>
          /\ parsed_data.functions
                = ExtractAll(EmptyParsedData, ExtractedSoFar).functions
          /\ parsed_data.classes
                = ExtractAll(EmptyParsedData, ExtractedSoFar).classes
          /\ parsed_data.imports
                = ExtractAll(EmptyParsedData, ExtractedSoFar).imports
    /\ raised \notin {<< "UnicodeDecodeError" >>, << "SyntaxError" >>}

C11_Witness ==
    /\ pc = "graph"
    /\ BadSoFar # {}
    /\ parsed_data.functions # << >>
    /\ parsed_data.imports # << >>

-----------------------------------------------------------------------------
(* Properties of the assembled result of DataVisualizer.                    *)

\* the node id of the i-th function record
NodeId(i) ==
    FuncAt(i).file \o ":" \o FuncAt(i).name

\* <<i, k, j>>: the k-th call of record i names record j
FanOut ==
    {t \in CallOccurrences \X FuncIdx :
        CallsOf(t[1][1])[t[1][2]] = FuncAt(t[2]).name}

EdgesBetween(from, to) ==
    {n \in 1..Len(results[1].graph.edges) :
        /\ results[1].graph.edges[n].from = from
        /\ results[1].graph.edges[n].to = to}

\* C12: the assembled graph has one edge per call occurrence and per
\* function record of the called name: a call of c by f gives an edge from
\* f's node to the node of every record named c, in whatever file, and none
\* when no function is named c; the number of edges is the sum of the
\* fan-outs.
C12_OneEdgePerCallAndTarget ==
    (pc = "done" /\ results # << >>) =>
        /\ Len(results[1].graph.edges) = Cardinality(FanOut)
        /\ \A i, j \in FuncIdx :
              Cardinality(EdgesBetween(NodeId(i), NodeId(j)))
                  = Cardinality({t \in FanOut : /\ NodeId(t[1][1]) = NodeId(i)
                                                /\ NodeId(t[2]) = NodeId(j)})
        /\ \A n \in 1..Len(results[1].graph.edges) :
              \E i, j \in FuncIdx :
                  /\ results[1].graph.edges[n].from = NodeId(i)
                  /\ results[1].graph.edges[n].to = NodeId(j)

\* two records named rec in two files, each calling rec: four edges
C12_Witness ==
    /\ pc = "done"
    /\ parsed_data.functions = << FuncRec, FuncRec2 >>
    /\ Len(results[1].graph.edges) = 4
    /\ EdgesBetween("other.py:rec", "pkg/app.py:rec") # {}
    /\ EdgesBetween("pkg/app.py:rec", "pkg/app.py:rec") # {}

\* the group an issue of that severity belongs to
HomeGroup(severity) ==
    CASE severity = "error" -> "errors"
      [] severity = "warning" -> "warnings"
      [] OTHER -> "info"

\* how often the issue x occurs in the list lst
Occurrences(lst, x) ==
    Cardinality({n \in 1..Len(lst) : lst[n] = x})

\* the issues of the analyzer that belong to a group, in the order found
FoundFor(category) ==
    SelectSeq(issues, LAMBDA x : HomeGroup(x.severity) = category)

\* y comes before x in the order of (file, line)
ComesBefore(y, x) ==
    \/ StrLess(y.file, x.file)
    \/ y.file = x.file /\ y.line < x.line

\* C13: prepare_issues_list places every issue in exactly one of the groups
\* errors, warnings, info, the one of its severity, none lost and none
\* duplicated, and every group is ordered by non-decreasing (file, line).
C13_GroupedAndSorted ==
    (pc = "done" /\ results # << >>) =>
        LET grouped == results[1].issues
        IN  /\ DOMAIN grouped = {"errors", "warnings", "info"}
            /\ \A n \in 1..Len(issues) : \A category \in DOMAIN grouped :
                  Occurrences(grouped[category], issues[n])
                      = IF category = HomeGroup(issues[n].severity)
                        THEN Occurrences(issues, issues[n])
                        ELSE 0
            /\ Len(grouped.errors) + Len(grouped.warnings) + Len(grouped.info)
                  = Len(issues)
            /\ \A category \in DOMAIN grouped :
                  \A n \in 1..(Len(grouped[category]) - 1) :
                      ~ComesBefore(grouped[category][n + 1], grouped[category][n])

\* all three groups are filled, and sorting moved an issue of two groups
C13_Witness ==
    /\ pc = "done"
    /\ results # << >>
    /\ \A category \in {"errors", "warnings", "info"} :
          results[1].issues[category] # << >>
    /\ results[1].issues.errors # FoundFor("errors")
    /\ results[1].issues.info # FoundFor("info")
    /\ \E n \in 1..(Len(results[1].issues.errors) - 1) :
          /\ results[1].issues.errors[n].file # results[1].issues.errors[n + 1].file
          /\ results[1].issues.errors[n].line > results[1].issues.errors[n + 1].line

-----------------------------------------------------------------------------
(* Properties of the persisted result.                                      *)

\* C14: saving an assembled result with save_results and reloading it with
\* load_results reproduces a structure identical to the saved one (graph,
\* file_tree, issues, stats); save_results without a prior result raises an
\* error and writes nothing.
C14_SaveLoadRoundTrip ==
    /\ pc = "saved" => disk # << >> /\ json_load(disk[1]) = results[1]
    /\ pc = "loaded" => results # << >> /\ results = stored
    /\ raised = << "ValueError" >> => results = << >> /\ disk = << >>
    /\ disk # << >> => stored # << >>

\* a reloaded result with nodes, an edge, a file tree, issues and a function
\* whose description is None
C14_Witness ==
    /\ pc = "loaded"
    /\ Len(results[1].graph.nodes) >= 2
    /\ results[1].graph.edges # << >>
    /\ results[1].file_tree # << >>
    /\ results[1].issues.warnings # << >>
    /\ results[1].issues.info # << >>
    /\ results[1].stats.total_issues >= 2
    /\ \E n \in 1..Len(results[1].graph.nodes) :
          results[1].graph.nodes[n].title = << >>

-----------------------------------------------------------------------------
\* C15: whatever the description service answers for a batch,
\* describe_functions_batch returns the functions it was given, in their
\* order, each of them carrying a description that is a text, and the run
\* does not fail over a description: no TypeError is raised.
HasTextDescription(func) ==
    /\ "description" \in DOMAIN func
    /\ func.description # << >>

C15_BatchFailureNeverFailsRun ==
    /\ \A k \in 1..Len(described) :
          /\ HasTextDescription(described[k])
          /\ described[k].name = parsed_data.functions[k].name
          /\ described[k].file = parsed_data.functions[k].file
    /\ raised # << "TypeError" >>

-----------------------------------------------------------------------------
\* C16: in every state of the progress store a reader of the entry of a
\* run can observe, the status is running, completed or error, the
\* progress is within 0..100 when the status is running or completed, and
\* the progress is -1 exactly when the status is error.
IsMinusOne(value) ==
    value.num = 0 - value.den

WithinPercent(value) ==
    /\ 0 <= value.num
    /\ value.num <= 100 * value.den

C16_ProgressEntryWellFormed ==
    progress # << >> =>
        LET entry == progress[1]
        IN  /\ entry.status \in {"running", "completed", "error"}
            /\ entry.status \in {"running", "completed"}
                  => WithinPercent(entry.progress)
            /\ entry.status = "error" <=> IsMinusOne(entry.progress)

-----------------------------------------------------------------------------
\* the nodes of the body of a function declared inside declaration n
InsideNested(k, n, x) ==
    \E m \in Declarations(k) \cap Within(TreeOf(k), n) :
        /\ m # n
        /\ \E b \in BodyOf(k, m) : x \in Within(TreeOf(k), b)

\* the callee names of the calls made in the body of declaration n itself
OwnCalls(k, n) ==
    CallNames(TreeOf(k),
              SelectSeq(Walk(TreeOf(k), n), LAMBDA x : ~InsideNested(k, n, x)))

\* C17: the call list of the record of a function holds the calls made in
\* the body of that function itself, and none made inside a function nested
\* in it or inside another function.
C17_CallsAreOwnBody ==
    \A k \in ParsedFiles : \A n \in Declarations(k) : \A i \in FuncIdx :
        Key(i) = DeclKey(k, n) => CallsOf(i) = OwnCalls(k, n)

-----------------------------------------------------------------------------
\* what a pass reports on an analyzer that has run no other pass
FreshOutput(p) ==
    RunPass(p, parsed_data, call_graph, << >>)

\* how often the passes that have run, from the k-th of Passes on, report
\* the issue x when each runs on its own
RECURSIVE ReportedByRan(_, _)
ReportedByRan(k, x) ==
    IF k > Len(Passes) THEN 0
    ELSE (IF Passes[k] \in ran THEN Occurrences(FreshOutput(Passes[k]), x) ELSE 0)
         + ReportedByRan(k + 1, x)

InOrderOfAnalyze ==
    analyze(parsed_data, call_graph, << >>)

IssueValues ==
    {issues[n] : n \in 1..Len(issues)}
        \cup {InOrderOfAnalyze[n] : n \in 1..Len(InOrderOfAnalyze)}
        \cup UNION {{FreshOutput(Passes[k])[n] : n \in 1..Len(FreshOutput(Passes[k]))} :
                        k \in 1..Len(Passes)}

\* C18: in whatever order the five passes are called on one analyzer, the
\* issue list holds each issue as often as the passes that have run report
\* it when run alone, and after all five the list is, as a multiset, the
\* one analyze produces in its own order.
C18_PassesOrderInsensitive ==
    pc = "ready" =>
        /\ \A x \in IssueValues : Occurrences(issues, x) = ReportedByRan(1, x)
        /\ ran = {Passes[k] : k \in 1..Len(Passes)} =>
              \A x \in IssueValues :
                  Occurrences(issues, x) = Occurrences(InOrderOfAnalyze, x)

C18_Witness ==
    /\ pc = "ready"
    /\ ran = {Passes[k] : k \in 1..Len(Passes)}
    /\ issues # InOrderOfAnalyze
    /\ Cardinality({issues[n].type : n \in 1..Len(issues)}) >= 4
    /\ issues[1].type = "unused_import"
    /\ issues[Len(issues)].type = "dead_code"

-----------------------------------------------------------------------------
\* a record with the fields it lacks taken from defaults
WithDefaults(rec, defaults) ==
    [key \in DOMAIN rec \cup DOMAIN defaults |->
        IF key \in DOMAIN rec THEN rec[key] ELSE defaults[key]]

\* the parsed data with every absent optional field given its empty value
Defaulted(pd) ==
    [pd EXCEPT
        !.functions = [i \in 1..Len(pd.functions) |->
            WithDefaults(pd.functions[i],
                         [calls |-> << >>, return_type |-> << >>,
                          in_main_block |-> FALSE])],
        !.imports = [m \in 1..Len(pd.imports) |->
            WithDefaults(pd.imports[m], [names |-> << >>])]]

\* C19: analyze never raises over a record that lacks an optional field
\* (calls, return_type, in_main_block of a function; names of an import):
\* it returns the issues it returns for the same records with the absent
\* fields empty.
C19_MissingOptionalFieldsDefault ==
    /\ raised = << >>
    /\ pc # "raised"
    /\ pc = "analyzed" =>
          issues = analyze(Defaulted(parsed_data),
                           _build_graph(Defaulted(parsed_data)), << >>)

-----------------------------------------------------------------------------
-----------------------------------------------------------------------------
\* the nodes of the assembled graph
NodesOfGraph ==
    results[1].graph.nodes

\* the record of the functions handed to the visualizer that was extracted
\* from declaration n of file k
IsRecordOf(i, k, n) ==
    /\ described[i].file = DeclKey(k, n)[1]
    /\ described[i].line_start = DeclKey(k, n)[2]
    /\ described[i].name = DeclKey(k, n)[3]

\* C21: parse, then assemble: the graph has one node per function record,
\* in the order of the records, and two functions of the same name declared
\* in two source files have nodes with different ids.
C21_NodeIdsTellFilesApart ==
    (pc = "done" /\ project # << >>) =>
        /\ Len(NodesOfGraph) = Len(described)
        /\ \A i \in 1..Len(NodesOfGraph) :
              /\ NodesOfGraph[i].label = described[i].name
              /\ NodesOfGraph[i].group = described[i].file
        /\ \A k1, k2 \in ParsedFiles :
              \A n1 \in Declarations(k1), n2 \in Declarations(k2) :
                  \A i, j \in 1..Len(NodesOfGraph) :
                      (/\ k1 # k2
                       /\ TreeOf(k1)[n1].name = TreeOf(k2)[n2].name
                       /\ IsRecordOf(i, k1, n1)
                       /\ IsRecordOf(j, k2, n2))
                          => NodesOfGraph[i].id # NodesOfGraph[j].id

-----------------------------------------------------------------------------
\* the issue types the five passes report
IssueKinds ==
    {"dead_code", "broken_call", "placeholder", "missing_return", "unused_import"}

\* the entries of the stats that are named after an issue type, in the
\* singular or in the plural
CountsOfKind(stats, kind) ==
    {key \in DOMAIN stats : key = kind \/ key = kind \o "s"}

\* the counts prepare_stats derives from the issue list
StatsFollowIssueList ==
    LET stats == results[1].stats
        groups == results[1].issues
    IN  /\ stats.total_issues = Len(issues)
        /\ stats.errors = Len(groups.errors)
        /\ stats.warnings = Len(groups.warnings)

\* C22: the stats agree with the issue list: total_issues is its length,
\* errors and warnings are the sizes of the two groups of
\* prepare_issues_list, and every issue type has a count, equal to the
\* number of issues of that type.
C22_StatsCountEveryKind ==
    (pc = "done" /\ results # << >>) =>
        /\ StatsFollowIssueList
        /\ \A kind \in IssueKinds :
              /\ CountsOfKind(results[1].stats, kind) # {}
              /\ \A key \in CountsOfKind(results[1].stats, kind) :
                    results[1].stats[key] = Cardinality(IssuesOfType(kind))

-----------------------------------------------------------------------------
\* the run has entered describe_all_functions
Describing ==
    pc \notin {"start", "parse", "graph", "parsed", "ready", "analyzed"}

\* the number of batches a list of that many functions is cut into
NumBatches(total) ==
    (total + MAX_FUNCTIONS_PER_BATCH - 1) \div MAX_FUNCTIONS_PER_BATCH

\* C23: describe_all_functions takes the functions as consecutive batches
\* of at most MAX_FUNCTIONS_PER_BATCH in list order: after each batch the
\* functions described so far are the first ones of the list, each once and
\* in order, and at its return they are all of them; it has waited once
\* after every batch but the last, and never for an empty list.
C23_BatchesInOrderDelaysBetween ==
    Describing =>
        LET total == Len(parsed_data.functions)
            done == Len(described)
        IN  /\ pc = "describe" =>
                  /\ batch_start % MAX_FUNCTIONS_PER_BATCH = 0
                  /\ done = (IF batch_start < total THEN batch_start ELSE total)
            /\ pc # "describe" => done = total
            /\ \A k \in 1..done : described[k] = parsed_data.functions[k]
            /\ delays = (IF done = total
                         THEN (IF total = 0 THEN 0 ELSE NumBatches(total) - 1)
                         ELSE done \div MAX_FUNCTIONS_PER_BATCH)

\* three batches and two delays
C23_Witness ==
    /\ pc = "visualize"
    /\ Len(described) > 2 * MAX_FUNCTIONS_PER_BATCH
    /\ Len(described) <= 3 * MAX_FUNCTIONS_PER_BATCH
    /\ delays = 2
    /\ described[1].name = "m1"
    /\ described[2 * MAX_FUNCTIONS_PER_BATCH + 1].name = "m21"

\* no function, no batch, no delay
C23_WitnessEmpty ==
    /\ pc = "visualize"
    /\ described = << >>
    /\ delays = 0

-----------------------------------------------------------------------------
\* the analyzer of the run has been constructed from the parsed data
GraphBuilt ==
    pc \in {"ready", "analyzed", "rebuilt", "describe", "visualize", "done"}

\* the targets of the edges out of n in the analyzer's graph
Successors(g, n) ==
    {e[2] : e \in {d \in g.edges : d[1] = n}}

\* the names in a list
Elements(list) ==
    {list[i] : i \in 1..Len(list)}

\* C30: the name-keyed call graph of build_call_graph and the graph of
\* _build_graph describe the same edges: for every function name n the
\* callee list stored under n holds exactly the targets of the edges out
\* of n, also when several function records share the name n.
C30_CallGraphsAgree ==
    GraphBuilt =>
        \A i \in FuncIdx :
            /\ FuncAt(i).name \in DOMAIN parsed_data.call_graph
            /\ Elements(parsed_data.call_graph[FuncAt(i).name])
                 = Successors(call_graph, FuncAt(i).name)

-----------------------------------------------------------------------------
(* analyze() called a second time on the same CodeAnalyzer *)

\* analyzer.analyze() again: the passes append to the same self.issues
AnalyzeAgain ==
    /\ pc = "analyzed"
    /\ LET run == RunPasses(1, parsed_data, call_graph, issues)
       IN  /\ issues' = run.issues
           /\ raised' = run.raised
           /\ pc' = IF run.raised # << >> THEN "raised" ELSE "reanalyzed"
    /\ UNCHANGED <<web, delays, model, project, cursor, parsed_data, call_graph, ran,
                   described, batch_start, results, disk, progress, stored>>

NextTwice ==
    \/ NewAnalyzer
    \/ Analyze
    \/ AnalyzeAgain

SpecTwice == InitRecords /\ [][NextTwice]_vars

\* old is the beginning of new, unaltered
IsPrefix(old, new) ==
    /\ Len(old) <= Len(new)
    /\ SubSeq(new, 1, Len(old)) = old

\* C29: the issue list of a CodeAnalyzer is append-only and accumulates:
\* a call of analyze() keeps every issue the list holds, unaltered and in
\* place, and leaves the call graph alone; a second call on the same
\* analyzer appends the issues of the first call once more, so that each
\* of them is in the returned list twice.
C29_IssuesAccumulate ==
    [][ /\ (Analyze \/ AnalyzeAgain) =>
              /\ IsPrefix(issues, issues')
              /\ call_graph' = call_graph
        /\ AnalyzeAgain => issues' = issues \o issues ]_vars

\* a second call has returned a list that holds the issues of the first twice
C29_Witness ==
    /\ pc = "reanalyzed"
    /\ Len(issues) >= 4
    /\ \E k \in 1..Len(issues) : issues[k].type = "dead_code"
    /\ \E k \in 1..Len(issues) : issues[k].type = "unused_import"
    /\ call_graph.edges # {}

-----------------------------------------------------------------------------
\* a <= b for two progress values
AtMost(a, b) ==
    a.num * b.den <= b.num * a.den

\* the step is not one of the failure path of the run
NotFailing ==
    pc' \notin {"reraised", "error"}

\* C28: as long as the run does not fail, the values written to its
\* progress entry never decrease (0, then 10, 30, 40, 60, the values of
\* the batches within 60..90, 90 and 100), and the status changes only
\* from running to completed, with the value 100 before and after, and
\* never changes again.
C28_ProgressNeverDecreases ==
    [][ NotFailing =>
          /\ AtMost(progress[1].progress, progress'[1].progress)
          /\ Start => progress[1].progress = Number(0)
          /\ progress' # progress =>
                \/ progress'[1].progress \in
                      {Number(10), Number(30), Number(40), Number(60),
                       Number(90), Number(100)}
                \/ /\ DescribeBatch
                   /\ AtMost(Number(60), progress'[1].progress)
                   /\ AtMost(progress'[1].progress, Number(90))
          /\ progress'[1].status # progress[1].status =>
                /\ progress[1].status = "running"
                /\ progress'[1].status = "completed"
                /\ progress[1].progress = Number(100)
                /\ progress'[1].progress = Number(100)
          /\ progress[1].status = "completed" => progress' = progress ]_vars

\* a run of three batches has completed
C28_Witness ==
    /\ pc = "completed"
    /\ progress = Entry("completed", "Analysis complete!", Number(100))
    /\ Len(described) > 2 * MAX_FUNCTIONS_PER_BATCH
    /\ stored # << >>

-----------------------------------------------------------------------------
(* ui/app.py: the requests of the clients while the thread of a run works *)

\* what no request other than POST /analyze writes
run == <<project, cursor, parsed_data, call_graph, issues, ran, described,
         batch_start, results, disk, raised, progress, stored, delays, model, pc>>

\* GET /progress/<project_id>: the entry of the run, read as it is now
PollProgress ==
    /\ progress # << >>
    /\ seen' = << progress[1].status >>
    /\ UNCHANGED <<run, llm_model, started_with, fetched>>

\* GET /results/<project_id>: 404 while analysis_results has no entry for
\* the run; the client is remembered with the status it had seen last
FetchResults ==
    /\ fetched' = << [code |-> IF stored = << >> THEN 404 ELSE 200,
                     after |-> seen] >>
    /\ UNCHANGED <<run, llm_model, started_with, seen>>

\* the models a client asks for: two of the list and one outside it
RequestedModels ==
    {LLM_MODEL, AVAILABLE_MODELS[2], "unknown/model"}

\* POST /config/model
UpdateModel ==
    /\ \E new_model \in RequestedModels :
          llm_model' = IF \E k \in 1..Len(AVAILABLE_MODELS) :
                             AVAILABLE_MODELS[k] = new_model
                       THEN new_model
                       ELSE llm_model
    /\ UNCHANGED <<run, started_with, seen, fetched>>

\* the projects of the runs the clients watch
WebProjects ==
    {<< >>, << 1 >>, << 12, 2 >>, << 7, 5 >>}

InitWeb ==
    /\ Init
    /\ project \in WebProjects

NextWeb ==
    \/ Start
    \/ ParseFile
    \/ ParseDone
    \/ BuildCallGraph
    \/ NewAnalyzer
    \/ Analyze
    \/ DescribeStart
    \/ DescribeBatch
    \/ DescribeDone
    \/ Visualize
    \/ HandleError
    \/ StoreResults
    \/ Complete
    \/ ReportError
    \/ PollProgress
    \/ FetchResults
    \/ UpdateModel

SpecWeb == InitWeb /\ [][NextWeb]_vars

-----------------------------------------------------------------------------
\* the status of the entry of the run
Status ==
    progress[1].status

\* C24: however the requests of the clients interleave with the thread of
\* the run, the results of a run are stored whenever its entry says
\* completed, so a GET /results sent by a client that has seen completed
\* is never answered with 404; and a run that ends with status error has
\* no stored results, at its end or before.
C24_CompletedMeansStored ==
    /\ Status = "completed" => (stored # << >> /\ stored = results)
    /\ fetched # << >> /\ fetched[1].after = << "completed" >>
          => fetched[1].code = 200
    /\ Status = "error" => stored = << >>
    /\ stored # << >> => pc \in {"stored", "completed"}
    /\ pc \in {"stored", "completed"} => raised = << >>

\* a client has seen completed and then fetched the results
C24_Witness ==
    /\ pc = "completed"
    /\ seen = << "completed" >>
    /\ fetched = << [code |-> 200, after |-> << "completed" >>] >>
    /\ stored # << >>

\* a client of a failed run is told there are no results
C24_WitnessError ==
    /\ pc = "error"
    /\ seen = << "error" >>
    /\ fetched = << [code |-> 404, after |-> << "error" >>] >>

-----------------------------------------------------------------------------
\* the steps of the thread of the run
Worker ==
    \/ Start
    \/ ParseFile
    \/ ParseDone
    \/ BuildCallGraph
    \/ NewAnalyzer
    \/ Analyze
    \/ DescribeStart
    \/ DescribeBatch
    \/ DescribeDone
    \/ Visualize
    \/ HandleError
    \/ StoreResults
    \/ Complete
    \/ ReportError

\* the runs followed to their end: of an empty project, of a project of one
\* function and of one with a file that is not parsed
FairProjects ==
    {<< >>, << 2 >>, << 10, 2 >>}

InitWebFair ==
    /\ Init
    /\ project \in FairProjects

\* the thread of a run is scheduled again and again while it has a step to
\* take, and every stage and every call of the service returns
SpecWebFair == InitWebFair /\ [][NextWeb]_vars /\ WF_vars(Worker)

\* the run has ended
Ended ==
    Status \in {"completed", "error"}

\* C25: every run that was started comes to status completed or error;
\* from then on its entry is never written again; and no request of a
\* client changes anything of a run, so none aborts or restarts it.
C25_RunsEndAndStayEnded ==
    /\ <>Ended
    /\ [][ /\ Ended => progress' = progress
           /\ (PollProgress \/ FetchResults \/ UpdateModel) => UNCHANGED run
         ]_vars

\* a run that ended while its clients polled, fetched and chose a model
C25_Witness ==
    /\ Ended
    /\ pc \in {"completed", "error"}
    /\ seen = << "running" >>
    /\ fetched # << >>
    /\ llm_model # started_with

-----------------------------------------------------------------------------
\* C26: what a run does is fixed by the configuration at the time it was
\* started: the model its describer is constructed with is the model that
\* was selected when POST /analyze started the run, whatever
\* POST /config/model requests arrive while it is running.
C26_ModelFixedAtStart ==
    model # << >> => model = << started_with >>

-----------------------------------------------------------------------------
\* the value of the entry of the run is the failure sentinel
ReportsFailure ==
    IsMinusOne(progress[1].progress)

\* C27: when a stage of analyze_project fails, the failure is reported
\* through the progress callback once, with progress -1, and the exception
\* goes on to the caller; the results of the analyzer stay what they were;
\* run_analysis ends the run with status error and progress -1 and stores
\* no results for it.
C27_FailureReportedAndRaised ==
    [][ /\ HandleError =>
              /\ ~ReportsFailure
              /\ progress' = progress_callback(
                                "Error: " \o ExceptionMessage(raised), Number(-1))
              /\ raised' = raised
              /\ raised # << >>
        /\ ReportsFailure' /\ ~ReportsFailure => HandleError
        /\ pc' \in {"raised", "reraised", "error"} =>
              /\ results' = results
              /\ stored' = stored
              /\ raised' # << >>
              /\ stored = << >>
        /\ ReportError =>
              /\ ReportsFailure
              /\ progress' = Entry("error", ExceptionMessage(raised), Number(-1))
        /\ pc = "error" => UNCHANGED run ]_vars

\* a run that failed in its description stage has ended
C27_Witness ==
    /\ pc = "error"
    /\ raised = << "TypeError" >>
    /\ progress = Entry("error", "'NoneType' object is not subscriptable",
                        Number(-1))
    /\ results = << >>
    /\ stored = << >>
    /\ described # << >>

====
